---- MODULE Spec2Model ----
(***************************************************************************)
(* A model of the openai-realtime client: the playback ring buffer         *)
(* (tools.AudioBuffer), the session lifecycle controller (realtime.Client),*)
(* the two audio pipeline loops (tools.StreamLocalAudio,                   *)
(* tools.PlayRemoteAudio) as the CLI agent starts them, and the event      *)
(* codec (realtime.ServerEvent).                                           *)
(*                                                                         *)
(* Each subsystem has its own specification over the shared variables:     *)
(*   SpecBuf     one producer and one consumer on an AudioBuffer           *)
(*   SpecClient  a Client: the application's calls, Start, Close and the   *)
(*               connection-state handler                                  *)
(*   SpecTimed   SpecClient with the connect window as a clock             *)
(*   SpecPipe    SpecClient with the pipeline loops its handlers start     *)
(*   SpecSetup   the registration calls with every handler, Start, Close   *)
(*   SpecEvents  the event codec on the messages of the data channel       *)
(***************************************************************************)
EXTENDS Integers, Sequences, FiniteSets, TLC

\* ------------------------------------------------------------------ bounds

\* Capacity of the ring buffer under test (NewAudioBuffer's argument).
BufCap == 2
\* Longest data slice handed to one Write; larger than BufCap on purpose.
MaxDataLen == 3
\* Longest destination slice handed to one Read.
MaxReadLen == 2
\* Number of Write calls the producer issues.
MaxWrites == 3
\* Number of Client.Start calls the application issues.
MaxStarts == 2
\* Number of Client.Close calls the application issues.
MaxCloses == 2
\* Largest number of events passed to PipeEvent.
MaxEvents == 5
\* Largest number of messages the data channel delivers.
MaxMessages == 3
\* Largest number of frames PlayRemoteAudio decodes.
MaxFrames == 5

\* --------------------------------------------------------------- variables

VARIABLES
    \* AudioBuffer fields
    buffer,        \* ab.buffer: the bytes held, oldest first
    size,          \* ab.size
    abMu,          \* owner of ab.mu: "none", "producer", "consumer"
    \* the producer goroutine, inside or outside Write
    wPc,           \* "idle", "lock", "body", "unlock", "panic"
    wData,         \* the argument of the Write in progress / last Write
    wPre,          \* the bytes held when that Write's body began
    wDropped,      \* the value that Write returned
    wCalls,        \* number of Write calls issued
    wDone,         \* number of Write calls that returned
    nextByte,      \* number of bytes handed to Write so far
    panicked,      \* a goroutine panicked: the process is gone
    \* the consumer goroutine, inside or outside Read
    rPc,           \* "idle", "lock", "check", "waiting", "woken", "unlock"
    rLen,          \* len(p) of the Read in progress / last Read
    rOut,          \* the bytes that Read copied into p
    rWaited,       \* that Read went through cond.Wait at least once
    rStartEmpty,   \* ab.size was 0 when that Read was called
    rStartDone,    \* wDone when that Read was called
    \* Client fields (for pointers, TRUE stands for non-nil)
    cfg,           \* c.cfg # nil
    eh,            \* c.eh: the handler held, NoHandler for nil
    audioTLH,      \* c.audioTLH: the handler held, NoHandler for nil
    audioL,        \* c.audioL # nil
    audioTRH,      \* c.audioTRH: the handler held, NoHandler for nil
    regRet,        \* the last SetConfig/Register... call and what it returned
    running,       \* c.running
    mu,            \* owner of c.mu: "none", "start"
    pc,            \* c.pc # nil
    pcCloseCalls,  \* number of c.pc.Close() calls made
    cancel,        \* c.cancel # nil
    ctxDone,       \* c.ctx is cancelled: the channel of Done() is closed
    parentDone,    \* the context handed to NewClient is cancelled
    state,         \* c.state, a webrtc.PeerConnectionState
    connectedGotClosed,  \* the handler's flag of that name
    connectedCloses,     \* number of close(connected) executed
    tlhStarts,     \* number of "go c.audioTLH(c.audioL)" executed
    \* the goroutine calling Start
    startPc,       \* "idle", "lock", "held", "await"
    startCalls,    \* number of Start calls issued
    startRet,      \* what the last Start returned ("none" before)
    negotiated,    \* some Start applied the remote description
    httpPc,        \* createSession's helper: "none", "inflight", "send", "done"
    httpRes,       \* what fasthttp.Do gave: "201", "status", "err"
    httpCalls,     \* signaling exchanges begun by the Start call in progress
    \* the goroutine calling Close
    closePc,       \* "idle", "lock"
    closeRets,     \* what each Close call returned, in order
    closeInAwait,  \* Close was called while the last Start awaited the exchange
    \* time
    windowElapsed, \* the connect window passed with no notification processed
    \* the pipeline goroutines started by the registered handlers
    localPc,       \* StreamLocalAudio: "off", "check", "body", "done"
    remotePc,      \* PlayRemoteAudio: "off", "check", "body", "done"
    \* the data channel's OnMessage callback, handling one message
    evPc,          \* "idle", "received", "decoded", "built", "encoded"
    evMsg,         \* the wire message: field name -> value
    evErr,         \* the error of the last decoding or encoding step
    evEvent,       \* the ServerEvent decoded
    evOut,         \* the wire message encoded from it
    arrivals,      \* the data-channel messages the callback was called with
    calls,         \* the calls of c.eh: which arrival, and the event passed
    \* CLIState fields; a string is the sequence of the fragments it was
    \* concatenated from
    userTrans,     \* s.userTrans
    coachTrans,    \* s.coachTrans
    turn,          \* s.turn: 0 for assistant, 1 for user
    piped,         \* the events passed to PipeEvent so far
    resps,         \* what each of those calls returned
    \* one call of tools.FrameSamples
    frameArgs,     \* its arguments: duration (in ms), rate, channels
    frameRet,      \* << >> until it returns, then << the int returned >>
    \* the transport, as far as the recorded lifecycle state is checked
    notified,      \* the state of the last notification the handler took
    lastFrame,     \* how each pipeline loop's last frame ended
    stream,        \* the bytes all Reads returned so far, and how many Write evicted
    \* PlayRemoteAudio's loop, with the frames it carries
    remoteLoopPc,  \* "loop" (top of the loop), "flush", "returned"
    jitter,        \* the jitter slice: the frames held, oldest first
    decoded,       \* number of frames decoded so far
    ringWrites     \* the frames passed to audioBuffer.Write, in call order

bufVars == << buffer, size, abMu, wPc, wData, wPre, wDropped, wCalls, wDone,
              nextByte, rPc, rLen, rOut, rWaited, rStartEmpty, rStartDone >>

cliVars == << cfg, eh, audioTLH, audioL, audioTRH, regRet, running, mu, pc,
              pcCloseCalls, cancel, ctxDone, parentDone, state,
              connectedGotClosed, connectedCloses, tlhStarts, startPc,
              startCalls, startRet, negotiated, httpPc, httpRes, httpCalls,
              closePc, closeRets, closeInAwait, windowElapsed >>

pipeVars == << localPc, remotePc >>

evVars == << evPc, evMsg, evErr, evEvent, evOut, arrivals, calls >>

transVars == << userTrans, coachTrans, turn, piped, resps >>

frameVars == << frameArgs, frameRet >>

jitVars == << remoteLoopPc, jitter, decoded, ringWrites >>

vars == << panicked, bufVars, cliVars, pipeVars, evVars, transVars, frameVars, jitVars,
          notified, lastFrame, stream >>

\* ----------------------------------------------------------------- helpers

Min(a, b) == IF a < b THEN a ELSE b

Max(a, b) == IF a > b THEN a ELSE b

\* Mutant of SliceFrom: the slice keeps the last byte it should cut off.
SliceFromKeepsOne(s, k) == SubSeq(s, Max(k, 1), Len(s))

\* Go's s[k:] for 0 <= k <= len(s)
SliceFrom(s, k) == SubSeq(s, k + 1, Len(s))

\* Go's s[:k] for 0 <= k <= len(s)
SliceTo(s, k) == SubSeq(s, 1, k)

\* The last k elements of s (all of s when it is shorter).
LastN(s, k) == SliceFrom(s, Max(0, Len(s) - k))

\* n bytes of the written stream, each tagged with its position in it.
Bytes(from, n) == [i \in 1..n |-> from + i - 1]

\* ============================================================ AudioBuffer

\* ab.cap, fixed by NewAudioBuffer
cap == BufCap

\* Write: "if ab.size+len(data) > ab.cap"
WriteOverflows(data) == size + Len(data) > cap

\* Mutant of WriteDrop: an overflowing Write drops nothing.
WriteDropsNothing(data) == 0

\* Write: "drop := ab.size + len(data) - ab.cap"
WriteDrop(data) == size + Len(data) - cap

\* Write: "ab.buffer = ab.buffer[drop:]" panics (slice bounds out of range)
\* when drop exceeds len(ab.buffer).
WritePanics(data) == WriteOverflows(data) /\ WriteDrop(data) > Len(buffer)

\* Mutant of ReadMustWait: Read forgets to wait for data.
ReadNeverWaits == FALSE

\* Read: "for ab.size == 0 { ab.cond.Wait() }"
ReadMustWait == size = 0

\* Mutant of MuWhileWaiting: the consumer sleeps with ab.mu held.
MuKeptWhileWaiting == "consumer"

\* cond.Wait unlocks ab.mu while the caller is parked.
MuWhileWaiting == "none"

\* cond.Signal wakes the parked consumer, if there is one.
SignalWakes(p) == IF p = "waiting" THEN "woken" ELSE p

BufInit ==
    /\ buffer = << >>
    /\ size = 0
    /\ abMu = "none"
    /\ wPc = "idle"
    /\ wData = << >>
    /\ wPre = << >>
    /\ wDropped = 0
    /\ wCalls = 0
    /\ wDone = 0
    /\ nextByte = 0
    /\ panicked = FALSE
    /\ rPc = "idle"
    /\ rLen = 0
    /\ rOut = << >>
    /\ rWaited = FALSE
    /\ rStartEmpty = FALSE
    /\ rStartDone = 0

\* ================================================================= Events

\* Server event kinds that the model names (ServerEventType constants).
ServerEventTypeError == "error"
ServerEventTypeConversationItemInputAudioTranscriptionCompleted ==
    "conversation.item.input_audio_transcription.completed"
ServerEventTypeRatelimitsUpdated == "rate_limits.updated"

\* The closed vocabulary: the kinds UnmarshalJSON's switch has a case for,
\* in the order of the switch.
ServerEventTypes ==
    {"error",
     "session.created",
     "session.updated",
     "conversation.item.added",
     "conversation.item.done",
     "conversation.item.retrieved",
     "conversation.item.input_audio_transcription.completed",
     "conversation.item.input_audio_transcription.delta",
     "conversation.item.input_audio_transcription.segment",
     "conversation.item.input_audio_transcription.failed",
     "conversation.item.truncated",
     "conversation.item.deleted",
     "input_audio_buffer.committed",
     "input_audio_buffer.cleared",
     "input_audio_buffer.speech_started",
     "input_audio_buffer.speech_stopped",
     "input_audio_buffer.timeout_triggered",
     "output_audio_buffer.started",
     "output_audio_buffer.stopped",
     "output_audio_buffer.cleared",
     "response.created",
     "response.done",
     "response.output_item.added",
     "response.output_item.done",
     "response.content_part.added",
     "response.content_part.done",
     "response.output_text.delta",
     "response.output_text.done",
     "response.output_audio_transcript.delta",
     "response.output_audio_transcript.done",
     "response.output_audio.delta",
     "response.output_audio.done",
     "response.function_call_arguments.delta",
     "response.function_call_arguments.done",
     "response.mcp_call_arguments.delta",
     "response.mcp_call_arguments.done",
     "response.mcp_call.in_progress",
     "response.mcp_call.completed",
     "response.mcp_call.failed",
     "mcp_list_tools.in_progress",
     "mcp_list_tools.completed",
     "mcp_list_tools.failed",
     "rate_limits.updated"}

\* A field of a parameter shape: the wire name, the Go type New asserts
\* (int for asInt, float for asFloat64, any for a bare map lookup), whether
\* New fails without it, and whether Json leaves it out when empty.
Req(name, type) ==
    [name |-> name, type |-> type, req |-> TRUE, omitempty |-> FALSE]

Opt(name, type) ==
    [name |-> name, type |-> type, req |-> FALSE, omitempty |-> FALSE]

OptOmitEmpty(name, type) ==
    [name |-> name, type |-> type, req |-> FALSE, omitempty |-> TRUE]

\* UnmarshalJSON's switch, "case <kind>: e.Param = new(<shape>)", with the
\* shape (ServerEventParam<name>) as the list of the fields its New reads,
\* in the order it reads them. The error and rate-limits shapes are not
\* lists of independent fields and are modelled apart.
ShapeOf(k) ==
    CASE k = "session.created" ->
            \* SessionCreated, lines 536-549
            << Req("session", "object") >>
      [] k = "session.updated" ->
            \* SessionUpdated, lines 556-569
            << Req("session", "object") >>
      [] k = "conversation.item.added" ->
            \* ConversationItemAdded, lines 577-596
            << Opt("previous_item_id", "any"), Req("item", "object") >>
      [] k = "conversation.item.done" ->
            \* ConversationItemDone, lines 604-623
            << Opt("previous_item_id", "any"), Req("item", "object") >>
      [] k = "conversation.item.retrieved" ->
            \* ConversationItemRetrieved, lines 630-643
            << Req("item", "object") >>
      [] k = "conversation.item.input_audio_transcription.completed" ->
            \* ConversationItemInputAudioTranscriptionCompleted, lines 653-684
            << Req("item_id", "string"), Req("content_index", "int"),
               Req("transcript", "string"), Opt("usage", "object") >>
      [] k = "conversation.item.input_audio_transcription.delta" ->
            \* ConversationItemInputAudioTranscriptionDelta, lines 694-728
            << Req("item_id", "string"), Req("content_index", "int"),
               Req("delta", "string"), OptOmitEmpty("obfuscation", "string") >>
      [] k = "conversation.item.input_audio_transcription.segment" ->
            \* ConversationItemInputAudioTranscriptionSegment, lines 741-793
            << Req("item_id", "string"), Req("content_index", "int"),
               Req("text", "string"), Req("id", "string"),
               OptOmitEmpty("speaker", "string"), Req("start", "float"),
               Req("end", "float") >>
      [] k = "conversation.item.input_audio_transcription.failed" ->
            \* ConversationItemInputAudioTranscriptionFailed, lines 802-827
            << Req("item_id", "string"), Req("content_index", "int"),
               Req("error", "object") >>
      [] k = "conversation.item.truncated" ->
            \* ConversationItemTruncated, lines 836-861
            << Req("item_id", "string"), Req("content_index", "int"),
               Req("audio_end_ms", "int") >>
      [] k = "conversation.item.deleted" ->
            \* ConversationItemDeleted, lines 868-881
            << Req("item_id", "string") >>
      [] k = "input_audio_buffer.committed" ->
            \* InputAudioBufferCommitted, lines 889-908
            << Opt("previous_item_id", "any"), Req("item_id", "string") >>
      [] k = "input_audio_buffer.cleared" ->
            \* InputAudioBufferCleared, lines 913-919
            << >>
      [] k = "input_audio_buffer.speech_started" ->
            \* InputAudioBufferSpeechStarted, lines 927-946
            << Req("audio_start_ms", "int"), Req("item_id", "string") >>
      [] k = "input_audio_buffer.speech_stopped" ->
            \* InputAudioBufferSpeechStopped, lines 954-973
            << Req("audio_end_ms", "int"), Req("item_id", "string") >>
      [] k = "input_audio_buffer.timeout_triggered" ->
            \* InputAudioBufferTimeoutTriggered, lines 982-1007
            << Req("audio_start_ms", "int"), Req("audio_end_ms", "int"),
               Req("item_id", "string") >>
      [] k = "output_audio_buffer.started" ->
            \* OutputAudioBufferStarted, lines 1014-1027
            << Req("response_id", "string") >>
      [] k = "output_audio_buffer.stopped" ->
            \* OutputAudioBufferStopped, lines 1034-1047
            << Req("response_id", "string") >>
      [] k = "output_audio_buffer.cleared" ->
            \* OutputAudioBufferCleared, lines 1054-1067
            << Req("response_id", "string") >>
      [] k = "response.created" ->
            \* ResponseCreated, lines 1074-1087
            << Req("response", "object") >>
      [] k = "response.done" ->
            \* ResponseDone, lines 1094-1107
            << Req("response", "object") >>
      [] k = "response.output_item.added" ->
            \* ResponseOutputItemAdded, lines 1116-1141
            << Req("response_id", "string"), Req("output_index", "int"),
               Req("item", "object") >>
      [] k = "response.output_item.done" ->
            \* ResponseOutputItemDone, lines 1150-1175
            << Req("response_id", "string"), Req("output_index", "int"),
               Req("item", "object") >>
      [] k = "response.content_part.added" ->
            \* ResponseContentPartAdded, lines 1186-1223
            << Req("response_id", "string"), Req("item_id", "string"),
               Req("output_index", "int"), Req("content_index", "int"),
               Req("part", "object") >>
      [] k = "response.content_part.done" ->
            \* ResponseContentPartDone, lines 1234-1271
            << Req("response_id", "string"), Req("item_id", "string"),
               Req("output_index", "int"), Req("content_index", "int"),
               Req("part", "object") >>
      [] k = "response.output_text.delta" ->
            \* ResponseOutputTextDelta, lines 1282-1319
            << Req("response_id", "string"), Req("item_id", "string"),
               Req("output_index", "int"), Req("content_index", "int"),
               Req("delta", "string") >>
      [] k = "response.output_text.done" ->
            \* ResponseOutputTextDone, lines 1330-1367
            << Req("response_id", "string"), Req("item_id", "string"),
               Req("output_index", "int"), Req("content_index", "int"),
               Req("text", "string") >>
      [] k = "response.output_audio_transcript.delta" ->
            \* ResponseOutputAudioTranscriptDelta, lines 1378-1415
            << Req("response_id", "string"), Req("item_id", "string"),
               Req("output_index", "int"), Req("content_index", "int"),
               Req("delta", "string") >>
      [] k = "response.output_audio_transcript.done" ->
            \* ResponseOutputAudioTranscriptDone, lines 1426-1463
            << Req("response_id", "string"), Req("item_id", "string"),
               Req("output_index", "int"), Req("content_index", "int"),
               Req("transcript", "string") >>
      [] k = "response.output_audio.delta" ->
            \* ResponseOutputAudioDelta, lines 1474-1511
            << Req("response_id", "string"), Req("item_id", "string"),
               Req("output_index", "int"), Req("content_index", "int"),
               Req("delta", "string") >>
      [] k = "response.output_audio.done" ->
            \* ResponseOutputAudioDone, lines 1521-1552
            << Req("response_id", "string"), Req("item_id", "string"),
               Req("output_index", "int"), Req("content_index", "int") >>
      [] k = "response.function_call_arguments.delta" ->
            \* ResponseFunctionCallArgumentsDelta, lines 1563-1600
            << Req("response_id", "string"), Req("item_id", "string"),
               Req("output_index", "int"), Req("call_id", "string"),
               Req("delta", "string") >>
      [] k = "response.function_call_arguments.done" ->
            \* ResponseFunctionCallArgumentsDone, lines 1611-1648
            << Req("response_id", "string"), Req("item_id", "string"),
               Req("output_index", "int"), Req("call_id", "string"),
               Req("arguments", "string") >>
      [] k = "response.mcp_call_arguments.delta" ->
            \* ResponseMCPCallArgumentsDelta, lines 1658-1689
            << Req("response_id", "string"), Req("item_id", "string"),
               Req("output_index", "int"), Req("delta", "string") >>
      [] k = "response.mcp_call_arguments.done" ->
            \* ResponseMCPCallArgumentsDone, lines 1699-1730
            << Req("response_id", "string"), Req("item_id", "string"),
               Req("output_index", "int"), Req("arguments", "string") >>
      [] k = "response.mcp_call.in_progress" ->
            \* ResponseMCPCallInProgress, lines 1738-1757
            << Req("output_index", "int"), Req("item_id", "string") >>
      [] k = "response.mcp_call.completed" ->
            \* ResponseMCPCallCompleted, lines 1765-1784
            << Req("output_index", "int"), Req("item_id", "string") >>
      [] k = "response.mcp_call.failed" ->
            \* ResponseMCPCallFailed, lines 1792-1811
            << Req("output_index", "int"), Req("item_id", "string") >>
      [] k = "mcp_list_tools.in_progress" ->
            \* MCPListToolsInProgress, lines 1818-1831
            << Req("item_id", "string") >>
      [] k = "mcp_list_tools.completed" ->
            \* MCPListToolsCompleted, lines 1838-1851
            << Req("item_id", "string") >>
      [] k = "mcp_list_tools.failed" ->
            \* MCPListToolsFailed, lines 1858-1871
            << Req("item_id", "string") >>

\* ServerEventParamRatelimitsUpdated holds one field, a list of objects.
RateLimitsField == "rate_limits"

\* The fields of ServerEventParamError, under the names Json emits them
\* with inside the "error" object.
ErrorFields ==
    {"error.type", "error.event_id", "error.code", "error.message",
     "error.param"}

\* Every field name a wire message may carry: the identifier, the kind,
\* the fields of the shapes, the fields of a nested "error" object, the
\* flattened fields of the error kind, and "extra" for a key that no
\* shape reads.
FieldNames ==
    {"event_id", "type", "code", "message", "param", RateLimitsField, "extra",
     "arguments", "audio_end_ms", "audio_start_ms", "call_id",
     "content_index", "delta", "end", "error", "id", "item", "item_id",
     "obfuscation", "output_index", "part", "previous_item_id", "response",
     "response_id", "session", "speaker", "start", "text", "transcript",
     "usage"} \cup ErrorFields

\* A decoded JSON value that is not a Go string: a missing key, null, an
\* integral number, a number with a fraction, an object, a list of objects,
\* a list with some other element. Every other value is a string.
NonStrings == {"absent", "null", "num", "frac", "obj", "list", "badlist"}

\* The type assertion v.(string).
IsString(v) == v \notin NonStrings

\* An error value: what failed and the field or kind it names.
Err(kind, what) == [kind |-> kind, what |-> what]

Nil == Err("nil", "")

\* Mutant of Accepts: a string is taken for a number.
AcceptsLoosely(type, v) ==
    CASE type = "string" -> IsString(v)
      [] type = "int" -> v \in {"num", "frac"} \/ IsString(v)
      [] type = "float" -> v \in {"num", "frac"}
      [] type = "object" -> v = "obj"
      [] type = "any" -> v # "absent"

\* The "ok" of New's lookups: v.(string), asInt(v), asFloat64(v),
\* v.(map[string]any), and the bare "v, ok := m[name]".
Accepts(type, v) ==
    CASE type = "string" -> IsString(v)
      [] type = "int" -> v \in {"num", "frac"}
      [] type = "float" -> v \in {"num", "frac"}
      [] type = "object" -> v = "obj"
      [] type = "any" -> v # "absent"

\* The value New stores for an accepted v: asInt converts with int(n), which
\* drops the fraction of a float64.
Stored(type, v) ==
    IF type = "int" /\ v = "frac" THEN "num" ELSE v

\* The value New stores for an optional field it did not accept: the empty
\* string, or nil (which Json emits as null).
Zero(type) ==
    IF type = "string" THEN "" ELSE "null"

\* A wire message with no field at all.
NoMessage == [n \in FieldNames |-> "absent"]

\* A parameter struct with no field set.
NoParam == [n \in FieldNames |-> "unset"]

ShapeNames(shape) == {shape[i].name : i \in DOMAIN shape}

FieldOf(shape, n) == shape[CHOOSE i \in DOMAIN shape : shape[i].name = n]

\* New reads the fields in order and returns at the first required field it
\* does not accept: the index of that field, 0 when there is none.
FirstFailing(shape, raw) ==
    LET bad == {i \in DOMAIN shape :
                    shape[i].req /\ ~Accepts(shape[i].type, raw[shape[i].name])}
    IN  IF bad = {} THEN 0
        ELSE CHOOSE i \in bad : \A j \in bad : i <= j

\* <shape>.New(raw) for a shape that is a list of fields.
ShapeNew(shape, raw) ==
    LET i == FirstFailing(shape, raw) IN
    IF i # 0
    THEN [err |-> Err("missing", shape[i].name), param |-> NoParam]
    ELSE [err |-> Nil,
          param |-> [n \in FieldNames |->
                IF n \in ShapeNames(shape)
                THEN LET f == FieldOf(shape, n) IN
                     IF Accepts(f.type, raw[n]) THEN Stored(f.type, raw[n])
                     ELSE Zero(f.type)
                ELSE "unset"]]

\* <shape>.Json() for a shape that is a list of fields.
ShapeJson(shape, param) ==
    [n \in FieldNames |->
        IF n \in ShapeNames(shape)
            /\ ~(FieldOf(shape, n).omitempty /\ param[n] = "")
        THEN param[n]
        ELSE "absent"]

\* ServerEventParamError.New(raw): the nested "error" object if there is
\* one, the flattened keys otherwise.
ServerEventParamErrorNew(raw) ==
    IF raw["error"] = "obj"
    THEN IF ~IsString(raw["error.type"])
         THEN [err |-> Err("missing", "error.type"), param |-> NoParam]
         ELSE IF ~IsString(raw["error.code"])
         THEN [err |-> Err("missing", "error.code"), param |-> NoParam]
         ELSE IF ~IsString(raw["error.message"])
         THEN [err |-> Err("missing", "error.message"), param |-> NoParam]
         ELSE [err |-> Nil,
               param |-> [n \in FieldNames |->
                    IF n \in {"error.type", "error.code", "error.message"}
                    THEN raw[n]
                    ELSE IF n = "error.event_id"
                    THEN IF IsString(raw[n]) THEN raw[n] ELSE ""
                    ELSE IF n = "error.param"
                    THEN IF raw[n] # "absent" THEN raw[n] ELSE "null"
                    ELSE "unset"]]
    ELSE IF ~IsString(raw["type"])
         THEN [err |-> Err("missing", "type"), param |-> NoParam]
         ELSE IF ~IsString(raw["code"])
         THEN [err |-> Err("missing", "code"), param |-> NoParam]
         ELSE IF ~IsString(raw["message"])
         THEN [err |-> Err("missing", "message"), param |-> NoParam]
         ELSE [err |-> Nil,
               param |-> [n \in FieldNames |->
                    IF n = "error.type" THEN raw["type"]
                    ELSE IF n = "error.code" THEN raw["code"]
                    ELSE IF n = "error.message" THEN raw["message"]
                    ELSE IF n = "error.event_id"
                    THEN IF IsString(raw["event_id"]) THEN raw["event_id"]
                         ELSE ""
                    ELSE IF n = "error.param"
                    THEN IF raw["param"] # "absent" THEN raw["param"]
                         ELSE "null"
                    ELSE "unset"]]

\* ServerEventParamError.Json(): the nested shape, always.
ServerEventParamErrorJson(param) ==
    [n \in FieldNames |->
        IF n = "error" THEN "obj"
        ELSE IF n \in ErrorFields THEN param[n]
        ELSE "absent"]

\* ServerEventParamRatelimitsUpdated.New(raw).
ServerEventParamRatelimitsUpdatedNew(raw) ==
    IF raw[RateLimitsField] = "absent"
    THEN [err |-> Err("missing", RateLimitsField), param |-> NoParam]
    ELSE IF raw[RateLimitsField] = "list"
    THEN [err |-> Nil,
          param |-> [NoParam EXCEPT ![RateLimitsField] = "list"]]
    ELSE IF raw[RateLimitsField] = "badlist"
    THEN [err |-> Err("invalid element in", RateLimitsField),
          param |-> NoParam]
    ELSE [err |-> Err("invalid", RateLimitsField), param |-> NoParam]

\* ServerEventParamRatelimitsUpdated.Json().
ServerEventParamRatelimitsUpdatedJson(param) ==
    [n \in FieldNames |->
        IF n = RateLimitsField THEN param[n] ELSE "absent"]

\* e.Param.New(raw), dispatched on the shape the switch created for kind k.
ParamNew(k, raw) ==
    IF k = ServerEventTypeError THEN ServerEventParamErrorNew(raw)
    ELSE IF k = ServerEventTypeRatelimitsUpdated
    THEN ServerEventParamRatelimitsUpdatedNew(raw)
    ELSE ShapeNew(ShapeOf(k), raw)

\* e.Param.Json(), dispatched the same way.
ParamJson(k, param) ==
    IF k = ServerEventTypeError THEN ServerEventParamErrorJson(param)
    ELSE IF k = ServerEventTypeRatelimitsUpdated
    THEN ServerEventParamRatelimitsUpdatedJson(param)
    ELSE ShapeJson(ShapeOf(k), param)

\* A ServerEvent with nothing decoded into it.
NoEvent == [EventId |-> "", Type |-> "", Param |-> NoParam]

\* raw after "delete(raw, "event_id")" and "delete(raw, "type")".
RawOf(msg) == [msg EXCEPT !["event_id"] = "absent", !["type"] = "absent"]

\* "len(raw) == 0".
RawIsEmpty(raw) == \A n \in FieldNames : raw[n] = "absent"

\* Mutant of HasEventId: the identifier is not looked at.
HasEventIdAlways(msg) == TRUE

\* raw["event_id"].(string) is ok.
HasEventId(msg) == IsString(msg["event_id"])

\* ServerEvent.UnmarshalJSON(msg), for msg a JSON object: the error it
\* returns and the event it has filled in.
UnmarshalJSON(msg) ==
    IF ~HasEventId(msg)
    THEN [err |-> Err("missing", "event_id"), event |-> NoEvent]
    ELSE IF ~IsString(msg["type"])
    THEN [err |-> Err("missing", "type"),
          event |-> [NoEvent EXCEPT !.EventId = msg["event_id"]]]
    ELSE LET ev == [EventId |-> msg["event_id"], Type |-> msg["type"],
                    Param |-> NoParam]
         IN  IF RawIsEmpty(RawOf(msg))
             THEN [err |-> Err("missing", "param"), event |-> ev]
             ELSE IF msg["type"] \notin ServerEventTypes
             THEN [err |-> Err("unknown event type", msg["type"]),
                   event |-> ev]
             ELSE LET r == ParamNew(msg["type"], RawOf(msg)) IN
                  [err |-> r.err, event |-> [ev EXCEPT !.Param = r.param]]

\* ServerEvent.MarshalJSON(): the error it returns and the wire message.
\* (Its third check, "e.Param == nil", never holds for a decoded event.)
MarshalJSON(ev) ==
    IF ev.EventId = ""
    THEN [err |-> Err("empty", "EventId"), msg |-> NoMessage]
    ELSE IF ev.Type = ""
    THEN [err |-> Err("empty", "Type"), msg |-> NoMessage]
    ELSE [err |-> Nil,
          msg |-> [ParamJson(ev.Type, ev.Param)
                      EXCEPT !["event_id"] = ev.EventId, !["type"] = ev.Type]]

\* ------------------------------------------------------ messages received

\* The values a received message carries for a field New reads with the
\* given type: none, one New accepts, one of another type.
FieldValues(type) ==
    CASE type = "string" -> {"absent", "str", "num"}
      [] type = "int" -> {"absent", "num", "frac", "str"}
      [] type = "float" -> {"absent", "frac", "str"}
      [] type = "object" -> {"absent", "obj", "str"}
      [] type = "any" -> {"absent", "str", "null"}

\* The fields a message of a kind may carry, each with the values tried.
WireOf(k) ==
    IF k = ServerEventTypeError
    THEN << [name |-> "error", vals |-> {"absent", "obj", "str"}],
            [name |-> "error.type", vals |-> {"absent", "str", "num"}],
            [name |-> "error.code", vals |-> {"absent", "str"}],
            [name |-> "error.message", vals |-> {"absent", "str"}],
            [name |-> "error.event_id", vals |-> {"absent", "str"}],
            [name |-> "error.param", vals |-> {"absent", "str"}],
            [name |-> "code", vals |-> {"absent", "str"}],
            [name |-> "message", vals |-> {"absent", "str"}] >>
    ELSE IF k = ServerEventTypeRatelimitsUpdated
    THEN << [name |-> RateLimitsField,
             vals |-> {"absent", "list", "badlist", "str", "null"}] >>
    ELSE [i \in DOMAIN ShapeOf(k) |->
            [name |-> ShapeOf(k)[i].name,
             vals |-> FieldValues(ShapeOf(k)[i].type)]]

RECURSIVE PayloadsUpTo(_, _)
\* The payloads over the first i fields of a wire table.
PayloadsUpTo(wire, i) ==
    IF i = 0 THEN {NoMessage}
    ELSE {[p EXCEPT ![wire[i].name] = v] :
            p \in PayloadsUpTo(wire, i - 1), v \in wire[i].vals}

\* A kind outside the vocabulary.
UnknownKind == "conversation.item.created"

\* The messages received on the data channel that carry the fields of kind
\* k: every payload over its fields, with or without a key the kind does
\* not read, with a well-formed, missing or non-string identifier, and with
\* the kind itself, no kind, a non-string kind or an unknown kind.
Messages(k) ==
    {[p EXCEPT !["event_id"] = h[1], !["type"] = h[2], !["extra"] = x] :
        p \in PayloadsUpTo(WireOf(k), Len(WireOf(k))),
        h \in {<<"evt_1", k>>, <<"evt_1", "absent">>,
               <<"evt_1", "num">>, <<"evt_1", UnknownKind>>,
               <<"absent", k>>, <<"num", k>>,
               <<"absent", "absent">>},
        x \in {"absent", "str"}}

\* The callback is not running: its locals do not exist.
NotRunning == << >>

\* No message is being handled.
EvInit ==
    /\ evPc = "idle"
    /\ evMsg = NotRunning
    /\ evErr = Nil
    /\ evEvent = NotRunning
    /\ evOut = NotRunning
    /\ arrivals = << >>
    /\ calls = << >>

\* =========================================================== FrameSamples

\* A non-negative float64 is [bits, exp]: bits is its significand, most
\* significant bit first, at most 53 bits of which the first is 1 (no bits
\* for zero), and its value is bits * 2^exp. The values met here are far
\* from the subnormal and overflow ranges.

\* The w-bit binary numeral of n < 2^w, for w <= 31.
Bits(n, w) == [i \in 1..w |-> (n \div 2^(w - i)) % 2]

\* A binary numeral without its leading zeros.
Normal(b) ==
    IF \A i \in 1..Len(b) : b[i] = 0 THEN << >>
    ELSE SubSeq(b, CHOOSE p \in 1..Len(b) :
                        b[p] = 1 /\ \A j \in 1..(p - 1) : b[j] = 0,
                Len(b))

RECURSIVE ValueOf(_)
\* The number a binary numeral stands for, below 2^31.
ValueOf(b) ==
    IF Len(b) = 0 THEN 0
    ELSE IF Len(b) = 1 THEN b[1]
    ELSE ValueOf(SubSeq(b, 1, Len(b) \div 2)) * 2^(Len(b) - Len(b) \div 2)
            + ValueOf(SubSeq(b, Len(b) \div 2 + 1, Len(b)))

\* The float64 nearest to bits * 2^exp (+ a non-zero rest below the last bit
\* when inexact), ties to even: the rounding of every float64 operation.
RoundFloat64(bits, exp, inexact) ==
    LET Increment(b) ==
            IF \A i \in 1..Len(b) : b[i] = 1
            THEN << 1 >> \o [i \in 1..Len(b) |-> 0]
            ELSE LET p == CHOOSE p \in 1..Len(b) :
                            b[p] = 0 /\ \A j \in (p + 1)..Len(b) : b[j] = 1
                 IN  [i \in 1..Len(b) |->
                        IF i < p THEN b[i] ELSE IF i = p THEN 1 ELSE 0]
        kept == SubSeq(bits, 1, 53)
        rest == inexact \/ \E i \in 55..Len(bits) : bits[i] = 1
        up == bits[54] = 1 /\ (rest \/ kept[53] = 1)
        e == exp + Len(bits) - 53
    IN  IF Len(bits) <= 53 THEN [bits |-> bits, exp |-> exp]
        ELSE IF ~up THEN [bits |-> kept, exp |-> e]
        ELSE IF Len(Increment(kept)) = 54
        THEN [bits |-> SubSeq(Increment(kept), 1, 53), exp |-> e + 1]
        ELSE [bits |-> Increment(kept), exp |-> e]

\* float64(n) for an int 0 <= n < 2^31: exact.
Float64(n) == [bits |-> Normal(Bits(n, 31)), exp |-> 0]

\* time.Duration.Seconds of a duration of d milliseconds:
\*   sec := d / Second; nsec := d % Second
\*   return float64(sec) + float64(nsec)/1e9
\* The quotient is expanded 10 bits at a time as (nsec / 5^9) / 2^9, which
\* keeps every intermediate number below 2^31.
Seconds(d) ==
    LET sec == d \div 1000
        nsec == (d % 1000) * 1000000
        RECURSIVE Expand(_, _)
        \* k more chunks of the expansion of r / 5^9, and what is left
        Expand(r, k) ==
            IF k = 0 THEN [bits |-> << >>, rem |-> r]
            ELSE LET next == Expand((r * 1024) % 1953125, k - 1)
                 IN  [bits |-> Bits((r * 1024) \div 1953125, 10) \o next.bits,
                      rem |-> next.rem]
        q == Expand(nsec % 1953125, 8)
        frac == RoundFloat64(Normal(Bits(nsec \div 1953125, 9) \o q.bits),
                             0 - 89, q.rem # 0)
    IN  IF nsec = 0 THEN Float64(sec)
        ELSE IF sec = 0 THEN frac
        ELSE RoundFloat64(Float64(sec).bits
                            \o [i \in 1..((0 - frac.exp) - Len(frac.bits)) |-> 0]
                            \o frac.bits,
                          frac.exp, FALSE)

\* x * float64(n) for a float64 x and an int 0 <= n < 2^20; the exact
\* product is computed 10 bits of x at a time.
Times(x, n) ==
    LET RECURSIVE Product(_, _)
        \* the numeral of b * n + carry
        Product(b, carry) ==
            IF b = << >> THEN Bits(carry, 31)
            ELSE LET w == Min(10, Len(b))
                     t == ValueOf(SubSeq(b, Len(b) - w + 1, Len(b))) * n + carry
                 IN  Product(SubSeq(b, 1, Len(b) - w), t \div 2^w)
                        \o Bits(t % 2^w, w)
    IN  IF n = 0 \/ x.bits = << >> THEN Float64(0)
        ELSE RoundFloat64(Normal(Product(x.bits, 0)), x.exp, FALSE)

\* int(x) for a float64 0 <= x < 2^31: the fraction is dropped.
Truncate(x) ==
    IF x.exp >= 0
    THEN ValueOf(x.bits \o [i \in 1..x.exp |-> 0])
    ELSE ValueOf(SubSeq(x.bits, 1, Len(x.bits) + x.exp))

\* tools.FrameSamples
FrameSamples(duration, rate, channels) ==
    Truncate(Times(Times(Seconds(duration), channels), rate))

\* The call returns.
CallFrameSamples ==
    /\ frameRet = << >>
    /\ frameRet' = << FrameSamples(frameArgs.duration, frameArgs.rate,
                                   frameArgs.channels) >>
    /\ UNCHANGED frameArgs

\* ============================================================= Transcript

\* The label a transcript is seeded with: coachTrans for turn 0, userTrans
\* for turn 1.
Label(who) == IF who = 0 THEN << "Coach - " >> ELSE << "User  - " >>

\* NewCLIState
NewCLIState ==
    /\ userTrans = Label(1)
    /\ coachTrans = Label(0)
    /\ turn = 0
    /\ piped = << >>
    /\ resps = << >>

\* The four kinds PipeEvent acts on, 0 for the assistant's and 1 for the
\* user's, with the deltas a transcription event carries.
TranscriptEvents ==
    [Type : {"conversation.item.input_audio_transcription.delta",
             "response.output_audio_transcript.delta"},
     Delta : {<< "Hi" >>, << " there" >>, << "Hello" >>}]
    \cup [Type : {ServerEventTypeConversationItemInputAudioTranscriptionCompleted,
                  "response.output_audio_transcript.done"}]

\* "if s.turn == who" of every case (mutant: every event is the active
\* speaker's).
IsActiveAlways(t, who) == TRUE

IsActive(t, who) == t = who

\* resp of a delta in the active turn (mutant: the transcript held is left
\* out).
EmitDeltaOnly(trans, delta) == delta

EmitDelta(trans, delta) == IF trans = << >> THEN delta ELSE trans \o delta

\* The transcript after a delta in the active turn (mutant: it is kept).
AfterDeltaKept(trans) == trans

AfterDelta(trans) == << >>

\* resp of a completion in the active turn (mutant: no paragraph break).
CompletionWithoutBreak(trans) == trans

Completion(trans) == trans \o << "\n\n" >>

\* Mutant of Held: a delta for the speaker who is not active is dropped.
HeldDropped(trans, delta) == trans

\* PipeEvent, a delta for the speaker who is not active:
\* "s.userTrans += delta", "s.coachTrans += delta"
Held(trans, delta) == trans \o delta

\* CLIState.PipeEvent(event); s.mu is held for the whole call.
PipeEvent(event) ==
    /\ Len(piped) < MaxEvents
    /\ piped' = Append(piped, event)
    /\ CASE event.Type = "conversation.item.input_audio_transcription.delta" ->
            IF IsActive(turn, 1)
            THEN /\ resps' = Append(resps, EmitDelta(userTrans, event.Delta))
                 /\ userTrans' = AfterDelta(userTrans)
                 /\ UNCHANGED << coachTrans, turn >>
            ELSE /\ resps' = Append(resps, << >>)
                 /\ userTrans' = Held(userTrans, event.Delta)
                 /\ UNCHANGED << coachTrans, turn >>
         [] event.Type = "response.output_audio_transcript.delta" ->
            IF IsActive(turn, 0)
            THEN /\ resps' = Append(resps, EmitDelta(coachTrans, event.Delta))
                 /\ coachTrans' = AfterDelta(coachTrans)
                 /\ UNCHANGED << userTrans, turn >>
            ELSE /\ resps' = Append(resps, << >>)
                 /\ coachTrans' = Held(coachTrans, event.Delta)
                 /\ UNCHANGED << userTrans, turn >>
         [] event.Type = ServerEventTypeConversationItemInputAudioTranscriptionCompleted ->
            IF IsActive(turn, 1)
            THEN /\ resps' = Append(resps, Completion(userTrans))
                 /\ userTrans' = Label(1)
                 /\ turn' = 0
                 /\ UNCHANGED coachTrans
            ELSE /\ resps' = Append(resps, << >>)
                 /\ userTrans' = Label(1)
                 /\ UNCHANGED << coachTrans, turn >>
         [] event.Type = "response.output_audio_transcript.done" ->
            IF IsActive(turn, 0)
            THEN /\ resps' = Append(resps, Completion(coachTrans))
                 /\ coachTrans' = Label(0)
                 /\ turn' = 1
                 /\ UNCHANGED userTrans
            ELSE /\ resps' = Append(resps, << >>)
                 /\ coachTrans' = Label(0)
                 /\ UNCHANGED << userTrans, turn >>

\* ================================================================= Client

\* webrtc.PeerConnectionState, in the order of the library's enumeration
\* (the handler compares states with ">").
StateUnknown == 0
StateNew == 1
StateConnecting == 2
StateConnected == 3
StateDisconnected == 4
StateFailed == 5
StateClosed == 6

PeerConnectionStates == StateNew..StateClosed

\* respectCtx: "select { case <-c.ctx.Done(): return c.ctx.Err() ... }"
respectCtx == IF ctxDone THEN "ErrCtx" ELSE "nil"

\* Mutant of FirstCompletion: the handler forgets its guard.
CompletesEveryTime(got) == TRUE

\* The handler's guard "if !connectedGotClosed" before close(connected).
FirstCompletion(got) == ~got

\* Mutant of CancelsSession: the Disconnected case forgets c.cancel.
CancelsOnFailedOrClosed(s) == s \in {StateFailed, StateClosed}

\* The handler's cases that call c.cancel(...).
CancelsSession(s) == s \in {StateDisconnected, StateFailed, StateClosed}

\* A nil handler (the zero value of the three handler slots).
NoHandler == "nil"

\* The handler functions an application may hand to the Register... calls.
Handlers == {"h1", "h2"}

\* NewClient: the client as constructed, no configuration and no handlers.
CliInit ==
    /\ cfg = FALSE
    /\ eh = NoHandler
    /\ audioTLH = NoHandler
    /\ audioL = FALSE
    /\ audioTRH = NoHandler
    /\ regRet = [op |-> "none", err |-> "none"]
    /\ running = FALSE
    /\ mu = "none"
    /\ pc = TRUE
    /\ pcCloseCalls = 0
    /\ cancel = TRUE
    /\ ctxDone = FALSE
    /\ parentDone = FALSE
    /\ state = StateUnknown
    /\ connectedGotClosed = FALSE
    /\ connectedCloses = 0
    /\ tlhStarts = 0
    /\ startPc = "idle"
    /\ startCalls = 0
    /\ startRet = "none"
    /\ negotiated = FALSE
    /\ httpPc = "none"
    /\ httpRes = "none"
    /\ httpCalls = 0
    /\ closePc = "idle"
    /\ closeRets = << >>
    /\ closeInAwait = FALSE
    /\ windowElapsed = FALSE
    /\ localPc = "off"
    /\ remotePc = "off"

\* No call of FrameSamples is in progress.
Init ==
    /\ BufInit /\ CliInit /\ EvInit /\ NewCLIState
    /\ frameArgs = [duration |-> 0, rate |-> 0, channels |-> 0]
    /\ frameRet = << >>
    /\ notified = StateUnknown
    /\ lastFrame = [local |-> "none", remote |-> "none"]
    /\ stream = [delivered |-> << >>, evicted |-> 0]
    /\ remoteLoopPc = "loop"
    /\ jitter = << >>
    /\ decoded = 0
    /\ ringWrites = << >>

\* The variables of the Start goroutine and of the signaling helper.
startVars == << startPc, startCalls, startRet, negotiated, httpPc, httpRes,
               httpCalls >>

\* The variables of the connection-state handler.
handlerVars == << state, connectedGotClosed, connectedCloses, tlhStarts >>

\* The handler slots and the configuration.
slotVars == << cfg, eh, audioTLH, audioL, audioTRH, regRet >>

\* SetConfig's return value.
SetConfigErr ==
    IF running THEN "ErrSessionAlreadyRunning" ELSE "nil"

\* SetConfig(cfg), with cfg nil or not.
SetConfig(c) ==
    /\ ~panicked
    /\ mu = "none"
    /\ cfg' = IF SetConfigErr = "nil" THEN c ELSE cfg
    /\ regRet' = [op |-> "SetConfig", err |-> SetConfigErr]
    /\ UNCHANGED << panicked, bufVars, pipeVars, eh, audioTLH, audioL,
                    audioTRH, running, mu, pc, pcCloseCalls, cancel, ctxDone,
                    parentDone, handlerVars, startVars, closePc, closeRets,
                    closeInAwait, windowElapsed >>

\* Mutant of SlotTaken: the already-set check is gone.
SlotNeverTaken(slot) == FALSE

\* The registration calls' check "c.<slot> != nil".
SlotTaken(slot) == slot # NoHandler

\* RegisterEventHandler's return value.
RegisterEventHandlerErr(h) ==
    IF running THEN "ErrSessionAlreadyRunning"
    ELSE IF SlotTaken(eh) THEN "ErrEHandlerAlreadySet"
    ELSE IF h = NoHandler THEN "ErrHandlerRequired"
    ELSE "nil"

\* RegisterEventHandler(handler).
RegisterEventHandler(h) ==
    /\ ~panicked
    /\ mu = "none"
    /\ eh' = IF RegisterEventHandlerErr(h) = "nil" THEN h ELSE eh
    /\ regRet' = [op |-> "RegisterEventHandler",
                  err |-> RegisterEventHandlerErr(h)]
    /\ UNCHANGED << panicked, bufVars, pipeVars, cfg, audioTLH, audioL,
                    audioTRH, running, mu, pc, pcCloseCalls, cancel, ctxDone,
                    parentDone, handlerVars, startVars, closePc, closeRets,
                    closeInAwait, windowElapsed >>

\* RegisterTrackLocalHandler's return value; trackOk and addOk are the
\* outcomes of webrtc.NewTrackLocalStaticSample and of c.pc.AddTrack.
RegisterTrackLocalHandlerErr(h, trackOk, addOk) ==
    IF running THEN "ErrSessionAlreadyRunning"
    ELSE IF SlotTaken(audioTLH) \/ audioL THEN "ErrTLHandlerAlreadySet"
    ELSE IF h = NoHandler THEN "ErrHandlerRequired"
    ELSE IF ~trackOk THEN "ErrCreateTrack"
    ELSE IF ~addOk THEN "ErrAddTrack"
    ELSE "nil"

\* RegisterTrackLocalHandler(handler). c.audioL is assigned before the error
\* check of NewTrackLocalStaticSample and stays set when AddTrack fails.
\* After Close has set c.pc to nil, c.pc.AddTrack dereferences nil and
\* panics.
RegisterTrackLocalHandler(h, trackOk, addOk) ==
    /\ ~panicked
    /\ mu = "none"
    /\ LET err == RegisterTrackLocalHandlerErr(h, trackOk, addOk) IN
       IF err \in {"ErrSessionAlreadyRunning", "ErrTLHandlerAlreadySet",
                   "ErrHandlerRequired"}
       THEN /\ regRet' = [op |-> "RegisterTrackLocalHandler", err |-> err]
            /\ UNCHANGED << audioL, audioTLH, panicked >>
       ELSE /\ audioL' = trackOk
            /\ panicked' = (trackOk /\ ~pc)
            /\ audioTLH' = IF err = "nil" /\ pc THEN h ELSE audioTLH
            /\ regRet' = IF trackOk /\ ~pc THEN regRet
                         ELSE [op |-> "RegisterTrackLocalHandler", err |-> err]
    /\ UNCHANGED << bufVars, pipeVars, cfg, eh, audioTRH, running, mu, pc,
                    pcCloseCalls, cancel, ctxDone, parentDone, handlerVars,
                    startVars, closePc, closeRets, closeInAwait,
                    windowElapsed >>

\* RegisterTrackRemoteHandler's return value.
RegisterTrackRemoteHandlerErr(h) ==
    IF running THEN "ErrSessionAlreadyRunning"
    ELSE IF SlotTaken(audioTRH) THEN "ErrTRHandlerAlreadySet"
    ELSE IF h = NoHandler THEN "ErrHandlerRequired"
    ELSE "nil"

\* RegisterTrackRemoteHandler(handler). The slot is assigned before
\* c.pc.OnTrack; after Close has set c.pc to nil, c.pc.OnTrack dereferences
\* nil and panics.
RegisterTrackRemoteHandler(h) ==
    /\ ~panicked
    /\ mu = "none"
    /\ LET err == RegisterTrackRemoteHandlerErr(h) IN
       IF err # "nil"
       THEN /\ regRet' = [op |-> "RegisterTrackRemoteHandler", err |-> err]
            /\ UNCHANGED << audioTRH, panicked >>
       ELSE /\ audioTRH' = h
            /\ panicked' = ~pc
            /\ regRet' = IF pc
                         THEN [op |-> "RegisterTrackRemoteHandler",
                               err |-> "nil"]
                         ELSE regRet
    /\ UNCHANGED << bufVars, pipeVars, cfg, eh, audioTLH, audioL, running,
                    mu, pc, pcCloseCalls, cancel, ctxDone, parentDone,
                    handlerVars, startVars, closePc, closeRets, closeInAwait,
                    windowElapsed >>

\* The application calls Start.
StartCall ==
    /\ ~panicked
    /\ startPc = "idle"
    /\ startCalls < MaxStarts
    /\ startCalls' = startCalls + 1
    /\ startPc' = "lock"
    /\ closeInAwait' = FALSE
    /\ httpCalls' = 0
    /\ UNCHANGED << panicked, bufVars, pipeVars, slotVars, running, mu, pc,
                    pcCloseCalls, cancel, ctxDone, parentDone, handlerVars,
                    startRet, negotiated, httpPc, httpRes, closePc,
                    closeRets, windowElapsed >>

\* Start: c.mu.Lock(); the lock is held until Start returns.
StartLock ==
    /\ ~panicked
    /\ startPc = "lock"
    /\ mu = "none"
    /\ mu' = "start"
    /\ startPc' = "held"
    /\ UNCHANGED << panicked, bufVars, pipeVars, slotVars, running, pc,
                    pcCloseCalls, cancel, ctxDone, parentDone, handlerVars,
                    startCalls, startRet, negotiated, httpPc, httpRes,
                    httpCalls, closePc, closeRets, closeInAwait,
                    windowElapsed >>

\* Start returns err: the deferred c.mu.Unlock() runs.
StartReturns(err) ==
    /\ startRet' = err
    /\ startPc' = "idle"
    /\ mu' = "none"

\* Mutant of StartPrecondition: the configuration check is gone.
StartPreconditionSkipsConfig ==
    IF running THEN "ErrSessionAlreadyRunning"
    ELSE IF ~pc THEN "ErrClientNotInitialized"
    ELSE IF eh = NoHandler THEN "ErrNoEventHandler"
    ELSE "nil"

\* Mutant of StartPrecondition: the local-audio handler is required too.
StartPreconditionNeedsLocal ==
    IF running THEN "ErrSessionAlreadyRunning"
    ELSE IF ~cfg THEN "ErrNoConfig"
    ELSE IF ~pc THEN "ErrClientNotInitialized"
    ELSE IF eh = NoHandler \/ audioTLH = NoHandler THEN "ErrNoEventHandler"
    ELSE "nil"

\* Start's precondition checks, in the order of the code.
StartPrecondition ==
    IF running THEN "ErrSessionAlreadyRunning"
    ELSE IF ~cfg THEN "ErrNoConfig"
    ELSE IF ~pc THEN "ErrClientNotInitialized"
    ELSE IF eh = NoHandler THEN "ErrNoEventHandler"
    ELSE "nil"

\* Start, from the precondition checks to the select of createSession.
\* fail is the step that fails, if any: CreateOffer, SetLocalDescription, or
\* building the request in createSession (before the HTTP call is made).
StartNegotiate(fail) ==
    /\ ~panicked
    /\ startPc = "held"
    /\ IF StartPrecondition # "nil"
       THEN /\ StartReturns(StartPrecondition)
            /\ UNCHANGED << ctxDone, httpPc, httpRes, httpCalls >>
       ELSE IF fail \in {"offer", "local"}
       THEN /\ StartReturns(IF fail = "offer" THEN "ErrOffer" ELSE "ErrLocalDesc")
            /\ ctxDone' = TRUE
            /\ UNCHANGED << httpPc, httpRes, httpCalls >>
       ELSE IF respectCtx # "nil"
       THEN /\ StartReturns("ErrCtx")
            /\ UNCHANGED << ctxDone, httpPc, httpRes, httpCalls >>
       ELSE IF fail = "request"
       THEN /\ StartReturns("ErrSession")
            /\ ctxDone' = TRUE
            /\ UNCHANGED << httpPc, httpRes, httpCalls >>
       ELSE /\ startPc' = "await"
            /\ httpPc' = "inflight"
            /\ httpRes' = "none"
            /\ httpCalls' = httpCalls + 1
            /\ UNCHANGED << ctxDone, startRet, mu >>
    /\ UNCHANGED << panicked, bufVars, pipeVars, slotVars, running, pc,
                    pcCloseCalls, cancel, parentDone, handlerVars,
                    startCalls, negotiated, closePc, closeRets,
                    closeInAwait, windowElapsed >>

\* createSession's helper goroutine: fasthttp.Do returns, and the goroutine
\* goes on to send the result on the unbuffered errC.
HttpCompletes(res) ==
    /\ ~panicked
    /\ httpPc = "inflight"
    /\ httpPc' = "send"
    /\ httpRes' = res
    /\ UNCHANGED << panicked, bufVars, pipeVars, slotVars, running, mu, pc,
                    pcCloseCalls, cancel, ctxDone, parentDone, handlerVars,
                    startPc, startCalls, startRet, negotiated, httpCalls,
                    closePc, closeRets, closeInAwait, windowElapsed >>

\* createSession's select takes "case <-c.ctx.Done()": Start cancels (again)
\* and returns the error.
StartAbandons ==
    /\ ~panicked
    /\ startPc = "await"
    /\ ctxDone
    /\ StartReturns("ErrSession")
    /\ UNCHANGED << panicked, bufVars, pipeVars, slotVars, running, pc,
                    pcCloseCalls, cancel, ctxDone, parentDone, handlerVars,
                    startCalls, negotiated, httpPc, httpRes, httpCalls,
                    closePc, closeRets, closeInAwait, windowElapsed >>

\* Mutant of ExchangeOk: the status check is gone.
ExchangeOkWithoutStatus(res) == res # "err"

\* createSession after the select: the exchange gave no transport error
\* and the status is 201 Created.
ExchangeOk(res) == res = "201"

\* createSession's select takes "case err := <-errC"; then the status check
\* and SetRemoteDescription, whose outcome is remoteOk.
StartReceives(remoteOk) ==
    /\ ~panicked
    /\ startPc = "await"
    /\ httpPc = "send"
    /\ httpPc' = "done"
    /\ IF ~ExchangeOk(httpRes)
       THEN /\ StartReturns("ErrSession")
            /\ ctxDone' = TRUE
            /\ UNCHANGED negotiated
       ELSE IF ~remoteOk
       THEN /\ StartReturns("ErrRemoteDesc")
            /\ ctxDone' = TRUE
            /\ UNCHANGED negotiated
       ELSE /\ StartReturns("nil")
            /\ negotiated' = TRUE
            /\ UNCHANGED ctxDone
    /\ UNCHANGED << panicked, bufVars, pipeVars, slotVars, running, pc,
                    pcCloseCalls, cancel, parentDone, handlerVars,
                    startCalls, httpRes, httpCalls, closePc, closeRets,
                    closeInAwait, windowElapsed >>

\* The application calls Close.
CloseCall ==
    /\ ~panicked
    /\ closePc = "idle"
    /\ Len(closeRets) < MaxCloses
    /\ closePc' = "lock"
    /\ closeInAwait' = (closeInAwait \/ startPc = "await")
    /\ UNCHANGED << panicked, bufVars, pipeVars, slotVars, running, mu, pc,
                    pcCloseCalls, cancel, ctxDone, parentDone, handlerVars,
                    startVars, closeRets, windowElapsed >>

\* Close, from c.mu.Lock() to its return.
CloseBody ==
    /\ ~panicked
    /\ closePc = "lock"
    /\ mu = "none"
    /\ closePc' = "idle"
    /\ IF respectCtx # "nil"
       THEN /\ closeRets' = Append(closeRets, "ErrCtx")
            /\ UNCHANGED << pc, pcCloseCalls, cancel, ctxDone, running >>
       ELSE /\ closeRets' = Append(closeRets, "nil")
            /\ pc' = FALSE
            /\ pcCloseCalls' = IF pc THEN pcCloseCalls + 1 ELSE pcCloseCalls
            /\ cancel' = FALSE
            /\ ctxDone' = (ctxDone \/ cancel)
            /\ running' = FALSE
    /\ UNCHANGED << panicked, bufVars, pipeVars, slotVars, mu, parentDone,
                    handlerVars, startVars, closeInAwait, windowElapsed >>

\* Mutant of ReportsConnected: capture starts while still connecting.
ReportsConnecting(s) == s \in {StateConnecting, StateConnected}

\* The handler's "case webrtc.PeerConnectionStateConnected".
ReportsConnected(s) == s = StateConnected

\* The transport reports connection state s: the handler registered by
\* NewClient runs, from c.mu.Lock() to its return. The transport reports
\* states once the session is negotiated, and Closed once it was closed.
OnConnectionStateChange(s) ==
    /\ ~panicked
    /\ negotiated \/ (s = StateClosed /\ pcCloseCalls > 0)
    /\ mu = "none"
    /\ IF respectCtx # "nil"
       THEN UNCHANGED << handlerVars, ctxDone, panicked, localPc >>
       ELSE /\ state' = s
            /\ IF ReportsConnected(s)
               THEN IF FirstCompletion(connectedGotClosed)
                    THEN /\ connectedGotClosed' = TRUE
                         /\ connectedCloses' = connectedCloses + 1
                         /\ tlhStarts' = tlhStarts + 1
                         /\ panicked' = (audioTLH = NoHandler)
                         /\ localPc' = IF audioTLH # NoHandler THEN "start"
                                      ELSE localPc
                         /\ UNCHANGED ctxDone
                    ELSE UNCHANGED << connectedGotClosed, connectedCloses,
                                      tlhStarts, panicked, localPc, ctxDone >>
               ELSE IF s \in {StateDisconnected, StateFailed, StateClosed}
               THEN /\ IF FirstCompletion(connectedGotClosed)
                       THEN /\ connectedGotClosed' = TRUE
                            /\ connectedCloses' = connectedCloses + 1
                       ELSE UNCHANGED << connectedGotClosed, connectedCloses >>
                    /\ ctxDone' = (ctxDone \/ (CancelsSession(s) /\ cancel))
                    /\ panicked' = (CancelsSession(s) /\ ~cancel)
                    /\ UNCHANGED << tlhStarts, localPc >>
               ELSE UNCHANGED << connectedGotClosed, connectedCloses,
                                 tlhStarts, panicked, localPc, ctxDone >>
    /\ UNCHANGED << bufVars, remotePc, slotVars, running, mu, pc,
                    pcCloseCalls, cancel, parentDone, startVars, closePc,
                    closeRets, closeInAwait, windowElapsed >>

\* The application cancels the context it handed to NewClient; c.ctx is
\* derived from it and is cancelled with it.
ParentCancel ==
    /\ ~panicked
    /\ ~parentDone
    /\ parentDone' = TRUE
    /\ ctxDone' = TRUE
    /\ UNCHANGED << panicked, bufVars, pipeVars, slotVars, running, mu, pc,
                    pcCloseCalls, cancel, handlerVars, startVars, closePc,
                    closeRets, closeInAwait, windowElapsed >>

\* The connect window (10 s in the polling Start) passes after negotiation
\* without a Connected/Disconnected/Failed/Closed notification processed.
ConnectWindowElapses ==
    /\ ~panicked
    /\ negotiated
    /\ ~connectedGotClosed
    /\ ~windowElapsed
    /\ windowElapsed' = TRUE
    /\ UNCHANGED << panicked, bufVars, pipeVars, slotVars, running, mu, pc,
                    pcCloseCalls, cancel, ctxDone, parentDone, handlerVars,
                    startVars, closePc, closeRets, closeInAwait >>

\* ------------------------------------------------------ pipeline loops

\* The context the CLI agent's handlers pass to StreamLocalAudio and
\* PlayRemoteAudio: Spawn's own ctx parameter, the parent of c.ctx.
PipelineCtxDone == parentDone

\* A remote audio track arrives: the OnTrack callback runs
\* "go c.audioTRH(track)", which calls PlayRemoteAudio.
OnTrack ==
    /\ ~panicked
    /\ negotiated
    /\ audioTRH # NoHandler
    /\ remotePc = "off"
    /\ remotePc' = "start"
    /\ UNCHANGED << panicked, bufVars, cliVars, localPc >>

\* StreamLocalAudio before its loop: mediaTrack.NewEncodedReader.
LocalSetup(ok) ==
    /\ ~panicked
    /\ localPc = "start"
    /\ localPc' = IF ok THEN "check" ELSE "done"
    /\ UNCHANGED << panicked, bufVars, cliVars, remotePc >>

\* StreamLocalAudio, top of the loop: "select { case <-ctx.Done(): return".
LocalCheck ==
    /\ ~panicked
    /\ localPc = "check"
    /\ localPc' = IF PipelineCtxDone THEN "done" ELSE "body"
    /\ UNCHANGED << panicked, bufVars, cliVars, remotePc >>

\* Mutant of EndsLocalLoop: a failed write ends the loop as well.
EndsLocalLoopOnWriteError(outcome) == outcome \in {"eof", "writeErr"}

\* StreamLocalAudio: "if err == io.EOF { release(); return }"; a read error
\* of any other kind, an empty buffer and a failed WriteSample "continue".
EndsLocalLoop(outcome) == outcome = "eof"

\* PlayRemoteAudio: "if err == io.EOF { return }" and, for any other
\* ReadRTP error, "return"; an empty payload and a failed Decode "continue".
EndsRemoteLoop(outcome) == outcome \in {"eof", "readErr"}

\* StreamLocalAudio, one frame: reader.Read and track.WriteSample.
LocalBody(outcome) ==
    /\ ~panicked
    /\ localPc = "body"
    /\ localPc' = IF EndsLocalLoop(outcome) THEN "done" ELSE "check"
    /\ UNCHANGED << panicked, bufVars, cliVars, remotePc >>

\* PlayRemoteAudio before its loop: opus.NewDecoder and oto.NewContext.
RemoteSetup(ok) ==
    /\ ~panicked
    /\ remotePc = "start"
    /\ remotePc' = IF ok THEN "check" ELSE "done"
    /\ UNCHANGED << panicked, bufVars, cliVars, localPc >>

\* PlayRemoteAudio, top of the loop: "select { case <-ctx.Done(): return".
RemoteCheck ==
    /\ ~panicked
    /\ remotePc = "check"
    /\ remotePc' = IF PipelineCtxDone THEN "done" ELSE "body"
    /\ UNCHANGED << panicked, bufVars, cliVars, localPc >>

\* PlayRemoteAudio, one packet: track.ReadRTP, decoder.Decode, the write.
RemoteBody(outcome) ==
    /\ ~panicked
    /\ remotePc = "body"
    /\ remotePc' = IF EndsRemoteLoop(outcome) THEN "done" ELSE "check"
    /\ UNCHANGED << panicked, bufVars, cliVars, localPc >>

LocalOutcomes == {"eof", "readErr", "noSamples", "writeErr", "ok"}

RemoteOutcomes == {"eof", "readErr", "emptyPayload", "decodeErr", "ok"}

\* ------------------------------------------------- the remote audio loop

\* PlayRemoteAudio: "minJitterFrames := 2"
minJitterFrames == 2

\* Mutant of FlushDue: the flush waits for one frame more.
FlushDueLate(held) == Len(held) > minJitterFrames

\* PlayRemoteAudio: "if len(jitter) >= minJitterFrames"
FlushDue(held) == Len(held) >= minJitterFrames

\* One iteration of PlayRemoteAudio's loop up to the jitter check: the
\* context check, track.ReadRTP, decoder.Decode, the conversion to bytes and
\* "jitter = append(jitter, frame)". A frame is its number in decoding
\* order and its length in bytes.
RemoteIterate(outcome, byteCount) ==
    /\ remoteLoopPc = "loop"
    /\ IF outcome \in {"ctxDone", "eof", "readErr"}
       THEN /\ remoteLoopPc' = "returned"
            /\ UNCHANGED << jitter, decoded, ringWrites >>
       ELSE IF outcome \in {"emptyPayload", "decodeErr", "noSamples"}
       THEN UNCHANGED jitVars
       ELSE /\ decoded < MaxFrames
            /\ decoded' = decoded + 1
            /\ jitter' = Append(jitter, [n |-> decoded + 1, len |-> byteCount])
            /\ remoteLoopPc' = IF FlushDue(jitter') THEN "flush" ELSE "loop"
            /\ UNCHANGED ringWrites

\* The flush: "for _, f := range jitter { audioBuffer.Write(f) }" and
\* "jitter = jitter[:0]".
RemoteFlush ==
    /\ remoteLoopPc = "flush"
    /\ ringWrites' = ringWrites \o jitter
    /\ jitter' = << >>
    /\ remoteLoopPc' = "loop"
    /\ UNCHANGED decoded

SpecJitter ==
    Init /\ [][/\ \/ \E outcome \in RemoteOutcomes \cup {"ctxDone", "noSamples"},
                        byteCount \in {2, 4} :
                          RemoteIterate(outcome, byteCount)
                  \/ RemoteFlush
               /\ UNCHANGED << panicked, bufVars, cliVars, pipeVars, evVars,
                               transVars, frameVars, notified, lastFrame, stream >>]_vars

\* --------------------------------------------------- Client specification

\* The configuration and registration calls, with handlers drawn from H.
RegistrationStep(H) ==
    \/ \E c \in BOOLEAN : SetConfig(c)
    \/ \E h \in H : RegisterEventHandler(h)
    \/ \E h \in H, o \in {"ok", "trackErr", "addErr"} :
            RegisterTrackLocalHandler(h, o # "trackErr", o # "addErr")
    \/ \E h \in H : RegisterTrackRemoteHandler(h)

ApplicationStep ==
    \/ RegistrationStep({NoHandler, "h1"})
    \/ StartCall
    \/ CloseCall
    \/ ParentCancel

StartStep ==
    \/ StartLock
    \/ \E fail \in {"none", "offer", "local", "request"} : StartNegotiate(fail)
    \/ \E res \in {"201", "status", "err"} : HttpCompletes(res)
    \/ StartAbandons
    \/ \E remoteOk \in BOOLEAN : StartReceives(remoteOk)

TransportStep ==
    \E s \in PeerConnectionStates : OnConnectionStateChange(s)

PipelineStep ==
    \/ OnTrack
    \/ \E ok \in BOOLEAN : LocalSetup(ok)
    \/ LocalCheck
    \/ \E o \in LocalOutcomes : LocalBody(o)
    \/ \E ok \in BOOLEAN : RemoteSetup(ok)
    \/ RemoteCheck
    \/ \E o \in RemoteOutcomes : RemoteBody(o)

CliNext ==
    /\ \/ ApplicationStep
       \/ StartStep
       \/ CloseBody
       \/ TransportStep
    /\ UNCHANGED << evVars, transVars, frameVars, jitVars, notified, lastFrame, stream >>

\* The client alone: the application, Start, Close and the transport.
SpecClient == Init /\ [][CliNext]_vars

\* The client with its goroutines scheduled fairly: a Start or Close under
\* way takes its next step, and the transport delivers every notification
\* that would still change the client. The application is free to call or
\* not to call, and to cancel or not to cancel.
SpecClientLive ==
    /\ SpecClient
    /\ WF_cliVars(StartStep)
    /\ WF_cliVars(CloseBody)
    /\ \A s \in PeerConnectionStates : SF_cliVars(OnConnectionStateChange(s))

\* The client's setup: the application registers any of its handlers, in
\* any order and any number of times, around Start and Close.
SetupNext ==
    /\ \/ RegistrationStep(Handlers \cup {NoHandler})
       \/ StartCall
       \/ CloseCall
       \/ ParentCancel
       \/ StartStep
       \/ CloseBody
    /\ UNCHANGED << evVars, transVars, frameVars, jitVars, notified, lastFrame, stream >>

SpecSetup == Init /\ [][SetupNext]_vars

\* The client with the notifications of the transport on record; the
\* application registers handlers that are not nil.
NotifiedNext ==
    \/ /\ \/ RegistrationStep({"h1"})
          \/ StartCall
          \/ CloseCall
          \/ ParentCancel
          \/ StartStep
          \/ CloseBody
       /\ UNCHANGED << evVars, transVars, frameVars, jitVars, notified, lastFrame, stream >>
    \/ \E s \in PeerConnectionStates :
         /\ OnConnectionStateChange(s)
         /\ notified' = s
         /\ UNCHANGED << evVars, transVars, frameVars, jitVars, lastFrame, stream >>

SpecNotified == Init /\ [][NotifiedNext]_vars

\* The client with the connect window of the polling Start as a clock.
TimedNext == CliNext \/ (ConnectWindowElapses /\ UNCHANGED << evVars, transVars, frameVars, jitVars, notified, lastFrame, stream >>)

SpecTimed == Init /\ [][TimedNext]_vars

\* The client with the pipeline goroutines its handlers start.
PipeNext == CliNext \/ (PipelineStep /\ UNCHANGED << evVars, transVars, frameVars, jitVars, notified, lastFrame, stream >>)

SpecPipe == Init /\ [][PipeNext]_vars

\* The pipelines frame by frame: the session is configured, started and
\* connected as in SpecPipe, and each pass through a loop body leaves on
\* record how its frame ended.
LoopsNext ==
    \/ /\ \/ RegistrationStep({"h1"})
          \/ StartCall
          \/ ParentCancel
          \/ StartStep
          \/ TransportStep
          \/ OnTrack
          \/ \E ok \in BOOLEAN : LocalSetup(ok)
          \/ LocalCheck
          \/ \E ok \in BOOLEAN : RemoteSetup(ok)
          \/ RemoteCheck
       /\ UNCHANGED << evVars, transVars, frameVars, jitVars, notified, lastFrame, stream >>
    \/ \E o \in LocalOutcomes :
         /\ LocalBody(o)
         /\ lastFrame' = [lastFrame EXCEPT !.local = o]
         /\ UNCHANGED << evVars, transVars, frameVars, jitVars, notified, stream >>
    \/ \E o \in RemoteOutcomes :
         /\ RemoteBody(o)
         /\ lastFrame' = [lastFrame EXCEPT !.remote = o]
         /\ UNCHANGED << evVars, transVars, frameVars, jitVars, notified, stream >>

SpecLoops == Init /\ [][LoopsNext]_vars

\* ------------------------------------------------------- decoding steps

\* A message arrives on the data channel.
Receive ==
    /\ evPc = "idle"
    /\ evPc' = "received"
    /\ \E k \in ServerEventTypes : evMsg' \in Messages(k)
    /\ evErr' = Nil
    /\ evEvent' = NotRunning
    /\ evOut' = NotRunning

\* The OnMessage callback decodes it: event.UnmarshalJSON(msg.Data).
Decode ==
    /\ evPc = "received"
    /\ evPc' = "decoded"
    /\ evErr' = UnmarshalJSON(evMsg).err
    /\ evEvent' = UnmarshalJSON(evMsg).event
    /\ UNCHANGED << evMsg, evOut >>

\* A caller builds the parameter of kind k straight from the message, as
\* it was parsed: new(<shape>).New(msg).
BuildParam(k) ==
    /\ evPc = "received"
    /\ evMsg["type"] = k
    /\ evPc' = "built"
    /\ evErr' = ParamNew(k, evMsg).err
    /\ evEvent' = [EventId |-> "", Type |-> k,
                   Param |-> ParamNew(k, evMsg).param]
    /\ UNCHANGED << evMsg, evOut >>

\* A decoded event is encoded again: event.MarshalJSON().
Encode ==
    /\ evPc = "decoded"
    /\ evErr = Nil
    /\ evPc' = "encoded"
    /\ evErr' = MarshalJSON(evEvent).err
    /\ evOut' = MarshalJSON(evEvent).msg
    /\ UNCHANGED << evMsg, evEvent >>

\* The callback returns (after logging the error, if any) and the data
\* channel delivers the next message.
Deliver ==
    /\ evPc \in {"decoded", "built", "encoded"}
    /\ evPc' = "idle"
    /\ evMsg' = NotRunning
    /\ evErr' = Nil
    /\ evEvent' = NotRunning
    /\ evOut' = NotRunning

EvNext ==
    /\ \/ Receive
       \/ Decode
       \/ \E k \in ServerEventTypes : BuildParam(k)
       \/ Encode
       \/ Deliver
    /\ UNCHANGED << panicked, bufVars, cliVars, pipeVars, transVars, frameVars, jitVars,
                    notified, lastFrame, stream, arrivals, calls >>

SpecEvents == Init /\ [][EvNext]_vars

\* ------------------------------------------------------------- dispatch

\* What the data channel hands to the callback: a text frame holding any
\* message of one kind (its header well-formed, incomplete or of unknown
\* kind), a text frame that is not JSON, or a binary frame.
Inbound ==
    {[IsString |-> TRUE, Json |-> TRUE, Data |-> msg] :
        msg \in Messages("session.created")}
    \cup {[IsString |-> TRUE, Json |-> FALSE, Data |-> NoMessage]}
    \cup {[IsString |-> FALSE, Json |-> TRUE,
           Data |-> [NoMessage EXCEPT !["event_id"] = "evt_1",
                                      !["type"] = "session.created",
                                      !["session"] = "obj"]]}

\* Mutant of DecodeFailed: the callback ignores the error.
DecodeNeverFails(msg) == FALSE

\* "if err := event.UnmarshalJSON(msg.Data); err != nil": sonic.Unmarshal
\* rejects what is not JSON, the decoder the rest.
DecodeFailed(msg) == ~msg.Json \/ UnmarshalJSON(msg.Data).err # Nil

\* The OnMessage callback, called by the data channel's read loop with one
\* message at a time.
OnMessage(msg) ==
    /\ Len(arrivals) < MaxMessages
    /\ arrivals' = Append(arrivals, msg)
    /\ IF ~msg.IsString THEN UNCHANGED calls
       ELSE IF DecodeFailed(msg) THEN UNCHANGED calls
       ELSE calls' = Append(calls,
                [n |-> Len(arrivals) + 1,
                 EventId |-> UnmarshalJSON(msg.Data).event.EventId,
                 Type |-> UnmarshalJSON(msg.Data).event.Type])
    /\ UNCHANGED << evPc, evMsg, evErr, evEvent, evOut >>

SpecDispatch ==
    Init /\ [][/\ \E msg \in Inbound : OnMessage(msg)
               /\ UNCHANGED << panicked, bufVars, cliVars, pipeVars, transVars,
                               frameVars, jitVars, notified, lastFrame, stream >>]_vars

\* ---------------------------------------------- FrameSamples specification

\* The arguments of the call: durations in milliseconds, sample rates in Hz
\* and channel counts, those of TestFrameSamples among them; everything
\* else is as in Init.
FrameInit ==
    /\ BufInit /\ CliInit /\ EvInit /\ NewCLIState
    /\ frameArgs \in [duration : {0, 9, 10, 20, 120, 1000, 2500, 10000},
                       rate : {0, 100, 8000, 44100, 48000, 96000},
                       channels : {0, 1, 2, 4}]
    /\ frameRet = << >>
    /\ notified = StateUnknown
    /\ lastFrame = [local |-> "none", remote |-> "none"]
    /\ stream = [delivered |-> << >>, evicted |-> 0]
    /\ remoteLoopPc = "loop"
    /\ jitter = << >>
    /\ decoded = 0
    /\ ringWrites = << >>

\* One call of FrameSamples for each choice of its arguments.
SpecFrame ==
    /\ FrameInit
    /\ [][/\ CallFrameSamples
          /\ UNCHANGED << panicked, bufVars, cliVars, pipeVars, evVars,
                          transVars, notified, lastFrame, stream, jitVars >>]_vars

\* ------------------------------------------------ Transcript specification

\* The agent's event handler passes decoded events to PipeEvent, one at a
\* time.
SpecTranscript ==
    Init /\ [][/\ \E event \in TranscriptEvents : PipeEvent(event)
               /\ UNCHANGED << panicked, bufVars, cliVars, pipeVars, evVars,
                               frameVars, jitVars, notified, lastFrame, stream >>]_vars

\* ----------------------------------------------------------- Event claims

\* C17: decoding a message whose identifier is missing or not a string
\* fails with "missing event_id", and decoding one that has an identifier
\* and whose kind is missing or not a string fails with "missing type",
\* whatever the kind and the other fields.
C17_HeaderFieldsRequired ==
    evPc = "decoded" =>
        /\ ~IsString(evMsg["event_id"]) => evErr = Err("missing", "event_id")
        /\ (IsString(evMsg["event_id"]) /\ ~IsString(evMsg["type"]))
                => evErr = Err("missing", "type")

\* A message with payload fields and no kind was refused.
C17_Witness ==
    /\ evPc = "decoded"
    /\ evErr = Err("missing", "type")
    /\ evMsg["type"] = "absent"
    /\ evMsg["item_id"] = "str"
    /\ evMsg["delta"] = "str"

\* C18: decoding a message with an identifier and a kind outside the
\* vocabulary returns the unknown-kind error naming that kind.
C18_UnknownKindReported ==
    (/\ evPc = "decoded"
     /\ IsString(evMsg["event_id"])
     /\ IsString(evMsg["type"])
     /\ evMsg["type"] \notin ServerEventTypes)
        => evErr = Err("unknown event type", evMsg["type"])

\* The type a field must have on the wire, for a field New reads as type.
RightType(type, v) ==
    CASE type = "string" -> IsString(v)
      [] type = "int" -> v = "num"
      [] type = "float" -> v \in {"num", "frac"}
      [] type = "object" -> v = "obj"
      [] type = "any" -> v # "absent"
      [] type = "objlist" -> v = "list"

\* The fields of kind k, required or optional, with their types; for the
\* error kind, the fields of the nested "error" object.
FieldsOfKind(k, required) ==
    IF k = ServerEventTypeError
    THEN IF required
         THEN {[name |-> "error", type |-> "object"],
               [name |-> "error.type", type |-> "string"],
               [name |-> "error.code", type |-> "string"],
               [name |-> "error.message", type |-> "string"]}
         ELSE {[name |-> "error.event_id", type |-> "string"],
               [name |-> "error.param", type |-> "any"]}
    ELSE IF k = ServerEventTypeRatelimitsUpdated
    THEN IF required THEN {[name |-> RateLimitsField, type |-> "objlist"]}
         ELSE {}
    ELSE {[name |-> ShapeOf(k)[i].name, type |-> ShapeOf(k)[i].type] :
            i \in {j \in DOMAIN ShapeOf(k) : ShapeOf(k)[j].req = required}}

\* A well-formed wire message: an identifier, a kind of the vocabulary,
\* every field the kind requires with its type, optional fields absent or
\* with their type, and no other field.
WellFormed(msg) ==
    /\ IsString(msg["event_id"])
    /\ msg["type"] \in ServerEventTypes
    /\ \A f \in FieldsOfKind(msg["type"], TRUE) :
            RightType(f.type, msg[f.name])
    /\ \A f \in FieldsOfKind(msg["type"], FALSE) :
            msg[f.name] = "absent" \/ RightType(f.type, msg[f.name])
    /\ \A n \in FieldNames \ {"event_id", "type"} :
            msg[n] # "absent"
                => \E f \in FieldsOfKind(msg["type"], TRUE)
                            \cup FieldsOfKind(msg["type"], FALSE) :
                        f.name = n

\* out carries every field of msg with the same value; a field msg does
\* not carry is absent from out or carries the zero value.
Equivalent(msg, out) ==
    \A n \in FieldNames :
        \/ out[n] = msg[n]
        \/ msg[n] = "absent" /\ out[n] \in {"", "null"}

\* C19: a well-formed message of any kind decodes without error, and
\* encoding the decoded event gives back an equivalent message.
C19_RoundTrip ==
    (evPc \in {"decoded", "encoded"} /\ WellFormed(evMsg))
        => /\ evErr = Nil
           /\ evPc = "encoded" => Equivalent(evMsg, evOut)

\* The fields New reads from raw for kind k, required or optional: those of
\* the kind, and for the error kind without an "error" object the
\* flattened ones.
FieldsRead(k, raw, required) ==
    IF k = ServerEventTypeError /\ raw["error"] # "obj"
    THEN IF required
         THEN {[name |-> "type", type |-> "string"],
               [name |-> "code", type |-> "string"],
               [name |-> "message", type |-> "string"]}
         ELSE {[name |-> "event_id", type |-> "string"],
               [name |-> "param", type |-> "any"]}
    ELSE FieldsOfKind(k, required)

\* The struct field that holds wire field n of kind k.
StructField(k, raw, n) ==
    IF k = ServerEventTypeError /\ raw["error"] # "obj"
    THEN IF n = "event_id" THEN "error.event_id" ELSE "error.param"
    ELSE n

\* The required fields that raw lacks or carries with another type (asInt
\* takes any number).
Rejected(k, raw) ==
    {f \in FieldsRead(k, raw, TRUE) :
        ~(\/ RightType(f.type, raw[f.name])
          \/ f.type = "int" /\ raw[f.name] = "frac")}

C26_DispatchOncePerDecodedMessage ==
    LET Decodes(msg) ==
            /\ msg.IsString
            /\ msg.Json
            /\ UnmarshalJSON(msg.Data).err = Nil
    IN  /\ \A j \in 1..Len(calls) :
              /\ calls[j].n \in 1..Len(arrivals)
              /\ Decodes(arrivals[calls[j].n])
              /\ calls[j].EventId = arrivals[calls[j].n].Data["event_id"]
              /\ calls[j].Type = arrivals[calls[j].n].Data["type"]
        /\ \A j \in 1..(Len(calls) - 1) : calls[j].n < calls[j + 1].n
        /\ \A i \in 1..Len(arrivals) :
              Decodes(arrivals[i]) => \E j \in 1..Len(calls) : calls[j].n = i

\* A message of unknown kind arrived between two that decode: the handler
\* was called for the first and the third.
C26_Witness ==
    /\ Len(arrivals) = 3
    /\ arrivals[2].IsString
    /\ arrivals[2].Data["type"] = UnknownKind
    /\ Len(calls) = 2
    /\ calls[1].n = 1
    /\ calls[2].n = 3

\* ---------------------------------------------------- remote audio claims

\* C30: the frames passed to the ring buffer and those waiting in the
\* jitter slice are, in this order, the frames decoded so far, each once;
\* at the top of the loop (and when the loop has returned) the slice holds
\* fewer than minJitterFrames frames, every frame that made it full has been
\* written, and a flush starts with exactly minJitterFrames frames.
C30_JitterFlushedInOrder ==
    /\ \A i \in 1..Len(ringWrites \o jitter) : (ringWrites \o jitter)[i].n = i
    /\ Len(ringWrites \o jitter) = decoded
    /\ remoteLoopPc = "flush" => Len(jitter) = minJitterFrames
    /\ remoteLoopPc # "flush" =>
          /\ Len(jitter) < minJitterFrames
          /\ Len(ringWrites) = minJitterFrames * (decoded \div minJitterFrames)

\* Five frames were decoded: two flushes wrote four of them and the fifth
\* waits at the top of the loop.
C30_Witness ==
    /\ remoteLoopPc = "loop"
    /\ decoded = 5
    /\ Len(ringWrites) = 4
    /\ Len(jitter) = 1
    /\ jitter[1].n = 5

\* ---------------------------------------------------- FrameSamples claims

\* C22: FrameSamples returns duration[s] * rate * channels whenever that
\* product is an integer, and 0 whenever one of its arguments is 0.
C22_FrameSamplesExact ==
    frameRet # << >> =>
        LET \* duration[ms] * rate * channels = 1000 * whole + rest
            perChannel == frameArgs.duration * frameArgs.rate
            whole == (perChannel \div 1000) * frameArgs.channels
                        + ((perChannel % 1000) * frameArgs.channels) \div 1000
            rest == ((perChannel % 1000) * frameArgs.channels) % 1000
        IN  /\ rest = 0 => frameRet[1] = whole
            /\ (\/ frameArgs.duration = 0
                \/ frameArgs.rate = 0
                \/ frameArgs.channels = 0) => frameRet[1] = 0

\* ------------------------------------------------------ Transcript claims

RECURSIVE Concat(_)
\* The string a sequence of strings concatenates to (Go's "+").
Concat(ss) == IF ss = << >> THEN << >> ELSE Head(ss) \o Concat(Tail(ss))

\* C21: the events remote delta "Hi", remote delta " there", remote
\* completion, user delta "Hello", user completion, passed to a new CLIState,
\* return label+"Hi", " there", a paragraph break, label+"Hello", a paragraph
\* break; and whenever a completion ends the active speaker's turn, what
\* PipeEvent returned over that turn concatenates to that speaker's label,
\* the deltas received for that speaker since its previous completion, and
\* one paragraph break.
C21_TurnEmitsLabelTextBreak ==
    LET UserDelta == "conversation.item.input_audio_transcription.delta"
        CoachDelta == "response.output_audio_transcript.delta"
        UserDone == ServerEventTypeConversationItemInputAudioTranscriptionCompleted
        CoachDone == "response.output_audio_transcript.done"
        n == Len(piped)
        IsDelta(i) == piped[i].Type \in {UserDelta, CoachDelta}
        Who(i) == IF piped[i].Type \in {UserDelta, UserDone} THEN 1 ELSE 0
        Ends(i) == ~IsDelta(i) /\ resps[i] # << >>
        LastBefore(i, S) ==
            IF S = {} THEN 0 ELSE CHOOSE k \in S : \A j \in S : j <= k
        Start(i) == 1 + LastBefore(i, {k \in 1..(i - 1) : Ends(k)})
        Since(i) == 1 + LastBefore(i, {k \in 1..(i - 1) :
                                        ~IsDelta(k) /\ Who(k) = Who(i)})
        Text(i) == Concat([k \in 1..n |->
                            IF k >= Since(i) /\ k < i /\ IsDelta(k)
                               /\ Who(k) = Who(i)
                            THEN piped[k].Delta ELSE << >>])
    IN  /\ piped = << [Type |-> CoachDelta, Delta |-> << "Hi" >>],
                      [Type |-> CoachDelta, Delta |-> << " there" >>],
                      [Type |-> CoachDone],
                      [Type |-> UserDelta, Delta |-> << "Hello" >>],
                      [Type |-> UserDone] >>
           => resps = << Label(0) \o << "Hi" >>, << " there" >>, << "\n\n" >>,
                         Label(1) \o << "Hello" >>, << "\n\n" >> >>
        /\ \A i \in 1..n :
              Ends(i) => Concat(SubSeq(resps, Start(i), i))
                            = Label(Who(i)) \o Text(i) \o << "\n\n" >>

\* The five events of the example were passed and returned five non-empty
\* strings.
C21_Witness ==
    /\ Len(piped) = 5
    /\ piped[1] = [Type |-> "response.output_audio_transcript.delta",
                   Delta |-> << "Hi" >>]
    /\ piped[2].Type = "response.output_audio_transcript.delta"
    /\ piped[3].Type = "response.output_audio_transcript.done"
    /\ piped[4] = [Type |-> "conversation.item.input_audio_transcription.delta",
                   Delta |-> << "Hello" >>]
    /\ piped[5].Type = ServerEventTypeConversationItemInputAudioTranscriptionCompleted
    /\ \A i \in 1..5 : resps[i] # << >>

\* The speaker an event is about: 1 for the user's transcription, 0 for the
\* assistant's transcript.
Speaker(event) ==
    IF event.Type \in {"conversation.item.input_audio_transcription.delta",
                       ServerEventTypeConversationItemInputAudioTranscriptionCompleted}
    THEN 1 ELSE 0

\* The transcript CLIState holds for a speaker.
Trans(who) == IF who = 1 THEN userTrans ELSE coachTrans

\* C27: a delta or completion for the speaker who is not active returns the
\* empty string and leaves the active speaker as it is.
C27_InactiveSpeakerIsSilent ==
    [][Len(piped') = Len(piped) + 1
         => LET event == piped'[Len(piped')]
            IN  Speaker(event) # turn
                  => /\ resps'[Len(resps')] = << >>
                     /\ turn' = turn]_vars

\* The user's delta came first, while the assistant was active, and
\* returned nothing.
C27_Witness ==
    /\ Len(piped) >= 2
    /\ piped[1].Type = "conversation.item.input_audio_transcription.delta"
    /\ resps[1] = << >>
    /\ piped[2].Type = ServerEventTypeConversationItemInputAudioTranscriptionCompleted
    /\ resps[2] = << >>
    /\ turn = 0

\* C28, as stated: a delta for the speaker who is not active, whose
\* transcript is its label, returns label+delta and empties the transcript.
C28_InactiveDeltaEmitsLabel ==
    [][Len(piped') = Len(piped) + 1
         => LET event == piped'[Len(piped')]
                who == Speaker(event)
            IN  (/\ "Delta" \in DOMAIN event
                 /\ who # turn
                 /\ Trans(who) = Label(who))
                  => /\ resps'[Len(resps')] = Label(who) \o event.Delta
                     /\ (IF who = 1 THEN userTrans' ELSE coachTrans') = << >>]_vars

\* C28, amended: a delta for the active speaker, whose transcript is not
\* empty, returns transcript+delta (label+delta when the transcript is its
\* label) and empties the transcript; while the transcript is empty a delta
\* for the active speaker returns the delta alone.
C28_ActiveDeltaEmitsLabel ==
    [][Len(piped') = Len(piped) + 1
         => LET event == piped'[Len(piped')]
                who == Speaker(event)
            IN  ("Delta" \in DOMAIN event /\ who = turn)
                  => /\ resps'[Len(resps')] =
                            IF Trans(who) = << >> THEN event.Delta
                            ELSE Trans(who) \o event.Delta
                     /\ Trans(who) = Label(who)
                          => resps'[Len(resps')] = Label(who) \o event.Delta
                     /\ (IF who = 1 THEN userTrans' ELSE coachTrans') = << >>]_vars

\* Two deltas for the active assistant: the first returned label+delta, the
\* second the delta alone.
C28_Witness ==
    /\ Len(piped) >= 2
    /\ piped[1].Type = "response.output_audio_transcript.delta"
    /\ resps[1] = Label(0) \o piped[1].Delta
    /\ piped[2].Type = "response.output_audio_transcript.delta"
    /\ resps[2] = piped[2].Delta
    /\ coachTrans = << >>

\* C29: the assistant is active at first; a completion for the active
\* speaker returns its transcript and one paragraph break, resets the
\* transcript to the label and makes the other speaker active; no other
\* event changes the active speaker.
C29_CompletionFlipsTurn ==
    /\ turn = 0
    /\ [][Len(piped') = Len(piped) + 1
            => LET event == piped'[Len(piped')]
                   who == Speaker(event)
               IN  IF "Delta" \notin DOMAIN event /\ who = turn
                   THEN /\ resps'[Len(resps')] = Trans(who) \o << "\n\n" >>
                        /\ (IF who = 1 THEN userTrans' ELSE coachTrans') = Label(who)
                        /\ turn' = 1 - who
                   ELSE turn' = turn]_vars

\* The assistant completed with text pending, then the user completed: the
\* turn went to the user and back.
C29_Witness ==
    /\ Len(piped) >= 3
    /\ piped[1].Type = "response.output_audio_transcript.delta"
    /\ piped[2].Type = "response.output_audio_transcript.done"
    /\ resps[2] = << "\n\n" >>
    /\ piped[3].Type = ServerEventTypeConversationItemInputAudioTranscriptionCompleted
    /\ resps[3] = Label(1) \o << "\n\n" >>
    /\ turn = 0

\* --------------------------------------------------------- Client claims

\* C24: once the recorded state is Disconnected, Failed or Closed, no step
\* changes it.
C24_TerminalStateStays ==
    [][(state \in {StateDisconnected, StateFailed, StateClosed})
         => state' = state]_vars

\* Failed is on record although the handler has since been notified of
\* Connected.
C24_Witness ==
    /\ state = StateFailed
    /\ notified = StateConnected

\* C25: the recorded state never moves to a state ordered before it.
C25_StateNeverMovesBack ==
    [][state <= state']_vars

\* C4: when Close is called twice in sequence, the second call returns no
\* error and does not close the transport a second time.
C4_SecondCloseSucceeds ==
    (Len(closeRets) >= 2 /\ closeRets[1] = "nil") =>
        (closeRets[2] = "nil" /\ pcCloseCalls <= 1)

\* C5: whenever a Close call has returned - also after a terminal
\* notification or a failed Start fired the cancellation signal - the peer
\* connection has been closed and released.
C5_CloseReleasesTransport ==
    (Len(closeRets) >= 1 /\ ~parentDone) => (~pc /\ pcCloseCalls >= 1)

\* C6: the ready channel is closed at most once; the first Connected,
\* Disconnected, Failed or Closed notification that is processed closes it,
\* and nothing else does.
C6_ReadyClosedOnce ==
    /\ [](connectedCloses <= 1 /\ (connectedGotClosed <=> connectedCloses = 1))
    /\ [][\A s \in StateConnected..StateClosed :
            (OnConnectionStateChange(s) /\ ~ctxDone /\ connectedCloses = 0)
                => connectedCloses' = 1]_vars
    /\ [][connectedCloses' # connectedCloses =>
            \E s \in StateConnected..StateClosed :
                OnConnectionStateChange(s) /\ ~ctxDone]_vars

C6_Witness ==
    connectedCloses = 1 /\ tlhStarts = 1 /\ state = StateFailed

\* C7: if no Connected/Disconnected/Failed/Closed notification arrives within
\* the connect window after negotiation, Start returns a timeout error and
\* the session is left in a state other than Connected.
C7_StartTimesOut ==
    windowElapsed => (startRet = "ErrTimeout" /\ state # StateConnected)

\* C8: once Connected is recorded, processing a Disconnected, Failed or
\* Closed notification leaves the cancellation signal fired (Done() closed).
C8_TerminalCancels ==
    [][\A s \in {StateDisconnected, StateFailed, StateClosed} :
        (state = StateConnected /\ OnConnectionStateChange(s)) => ctxDone']_vars

C8_Witness ==
    /\ tlhStarts = 1
    /\ state \in {StateDisconnected, StateFailed, StateClosed}
    /\ ctxDone
    /\ ~parentDone
    /\ closeRets = << >>
    /\ startCalls = 1
    /\ startRet = "nil"

\* C9: once the session's cancellation signal has fired, each pipeline loop
\* that reaches its iteration boundary terminates there.
C9_LoopsObserveCancel ==
    [][/\ (ctxDone /\ localPc = "check" /\ localPc' # "check")
            => localPc' = "done"
       /\ (ctxDone /\ remotePc = "check" /\ remotePc' # "check")
            => remotePc' = "done"]_vars

\* C10: a Close called while Start awaits the signaling exchange does not
\* wait for c.mu behind that Start, and that Start returns an error.
C10_CloseAbandonsExchange ==
    /\ (closePc = "lock" /\ closeInAwait /\ startPc = "await") => mu # "start"
    /\ (closeInAwait /\ startPc = "idle") => startRet # "nil"

\* Every handler value a caller may pass, nil included.
AnyHandler == Handlers \cup {NoHandler}

\* The errors Start returns from its precondition checks.
PreconditionErrors ==
    {"ErrSessionAlreadyRunning", "ErrNoConfig", "ErrClientNotInitialized",
     "ErrNoEventHandler"}

\* What a Start that stops at a precondition check leaves untouched.
StartLeftNoTrace ==
    /\ httpCalls' = 0
    /\ httpPc' = httpPc
    /\ ctxDone' = ctxDone
    /\ negotiated' = negotiated
    /\ UNCHANGED << handlerVars, slotVars, pc, cancel, running >>

\* C11: a Register... call on a slot that already holds a handler returns
\* that slot's already-set error and leaves the handler held in place, for
\* each of the three slots and whatever handler (nil included) is passed.
C11_SlotsFilledOnce ==
    [][/\ \A h \in AnyHandler :
            (RegisterEventHandler(h) /\ eh # NoHandler)
                => (regRet'.err = "ErrEHandlerAlreadySet" /\ eh' = eh)
       /\ \A h \in AnyHandler, trackOk \in BOOLEAN, addOk \in BOOLEAN :
            (RegisterTrackLocalHandler(h, trackOk, addOk)
                    /\ audioTLH # NoHandler)
                => (regRet'.err = "ErrTLHandlerAlreadySet"
                        /\ audioTLH' = audioTLH)
       /\ \A h \in AnyHandler :
            (RegisterTrackRemoteHandler(h) /\ audioTRH # NoHandler)
                => (regRet'.err = "ErrTRHandlerAlreadySet"
                        /\ audioTRH' = audioTRH)]_vars

\* All three slots hold the handler registered first, and the last call, a
\* second registration, was refused.
C11_Witness ==
    /\ eh = "h1"
    /\ audioTLH = "h2"
    /\ audioTRH = "h1"
    /\ regRet = [op |-> "RegisterTrackRemoteHandler",
                 err |-> "ErrTRHandlerAlreadySet"]

\* C12: a Start that finds no configuration returns ErrNoConfig, and a Start
\* on a client that holds its transport (it was not closed) with a
\* configuration and no event handler returns ErrNoEventHandler; either way
\* no exchange is begun, the cancellation is not fired, and the session
\* state, the slots and the transport are as they were.
C12_StartRejectsUnconfigured ==
    [][\A fail \in {"none", "offer", "local", "request"} :
        /\ (StartNegotiate(fail) /\ ~running /\ ~cfg)
            => (startRet' = "ErrNoConfig" /\ startPc' = "idle"
                    /\ StartLeftNoTrace)
        /\ (StartNegotiate(fail) /\ ~running /\ cfg /\ pc /\ eh = NoHandler)
            => (startRet' = "ErrNoEventHandler" /\ startPc' = "idle"
                    /\ StartLeftNoTrace)]_vars

\* A Start was refused for its missing event handler, and the client is as
\* constructed otherwise.
C12_Witness ==
    /\ startRet = "ErrNoEventHandler"
    /\ startPc = "idle"
    /\ cfg
    /\ pc
    /\ ~ctxDone
    /\ httpCalls = 0
    /\ state = StateUnknown

\* C13, as stated: with a configuration and any one of the three handlers
\* registered, Start passes its precondition checks.
C13_AnyCapabilitySuffices ==
    [][\A fail \in {"none", "offer", "local", "request"} :
        (StartNegotiate(fail) /\ ~running /\ cfg /\ pc
            /\ (eh # NoHandler \/ audioTLH # NoHandler
                    \/ audioTRH # NoHandler))
            => (startPc' = "await" \/ startRet' \notin PreconditionErrors)]_vars

\* C13, amended: with a configuration and the event handler registered,
\* Start passes its precondition checks, whether or not either audio
\* handler is registered.
C13_EventHandlerSuffices ==
    [][\A fail \in {"none", "offer", "local", "request"} :
        (StartNegotiate(fail) /\ ~running /\ cfg /\ pc /\ eh # NoHandler)
            => (startPc' = "await" \/ startRet' \notin PreconditionErrors)]_vars

\* Start awaits the exchange with the event handler as the only capability.
C13_Witness ==
    /\ startPc = "await"
    /\ httpCalls = 1
    /\ eh # NoHandler
    /\ audioTLH = NoHandler
    /\ audioTRH = NoHandler

\* C14: when the exchange gives a transport error or a status other than
\* 201, or the remote description cannot be applied, Start returns an error,
\* the cancellation has fired, and that Start call began one exchange; no
\* Start call begins a second one.
C14_FailedExchangeIsFatal ==
    /\ [](httpCalls <= 1)
    /\ [][\A remoteOk \in BOOLEAN :
            (StartReceives(remoteOk) /\ (httpRes # "201" \/ ~remoteOk))
                => (/\ startRet' \notin {"nil", "none"}
                    /\ startPc' = "idle"
                    /\ ctxDone'
                    /\ httpCalls' = 1)]_vars

\* A Start returned the remote-description error after its one exchange.
C14_Witness ==
    /\ startRet = "ErrRemoteDesc"
    /\ startPc = "idle"
    /\ httpRes = "201"
    /\ httpCalls = 1
    /\ ctxDone
    /\ ~parentDone
    /\ closeRets = << >>

\* C15: once a Start has returned nil, and while the session is neither
\* closed nor cancelled, a further Start returns ErrSessionAlreadyRunning
\* and begins no exchange, and SetConfig and the three Register... calls
\* return ErrSessionAlreadyRunning and change nothing.
C15_RunningSessionIsFrozen ==
    [][(negotiated /\ pc /\ ~ctxDone) =>
        /\ \A fail \in {"none", "offer", "local", "request"} :
            StartNegotiate(fail)
                => (startRet' = "ErrSessionAlreadyRunning" /\ httpCalls' = 0)
        /\ \A c \in BOOLEAN :
            SetConfig(c)
                => (regRet'.err = "ErrSessionAlreadyRunning" /\ cfg' = cfg)
        /\ \A h \in AnyHandler :
            RegisterEventHandler(h)
                => (regRet'.err = "ErrSessionAlreadyRunning" /\ eh' = eh)
        /\ \A h \in AnyHandler, trackOk \in BOOLEAN, addOk \in BOOLEAN :
            RegisterTrackLocalHandler(h, trackOk, addOk)
                => (regRet'.err = "ErrSessionAlreadyRunning"
                        /\ audioTLH' = audioTLH /\ audioL' = audioL)
        /\ \A h \in AnyHandler :
            RegisterTrackRemoteHandler(h)
                => (regRet'.err = "ErrSessionAlreadyRunning"
                        /\ audioTRH' = audioTRH)]_vars

\* C16: the local-audio handler is started only by a step that records
\* Connected, and at most once, however many Connected notifications come.
C16_CaptureStartsOnceConnected ==
    /\ [](tlhStarts <= 1 /\ (tlhStarts = 1 => connectedGotClosed))
    /\ [][tlhStarts' # tlhStarts
            => (/\ OnConnectionStateChange(StateConnected)
                /\ state' = StateConnected
                /\ tlhStarts = 0)]_vars

\* The registered handler was started by the first Connected notification,
\* and the transport has reported another state since.
C16_Witness ==
    /\ tlhStarts = 1
    /\ audioTLH # NoHandler
    /\ state = StateConnecting
    /\ connectedCloses = 1
    /\ ~ctxDone

\* ------------------------------------------------- AudioBuffer operations

\* The producer calls Write(data) with len(data) = n.
WriteCall(n) ==
    /\ ~panicked
    /\ wPc = "idle"
    /\ wCalls < MaxWrites
    /\ wData' = Bytes(nextByte, n)
    /\ nextByte' = nextByte + n
    /\ wCalls' = wCalls + 1
    /\ wPc' = "lock"
    /\ UNCHANGED << buffer, size, abMu, wPre, wDropped, wDone, panicked,
                    rPc, rLen, rOut, rWaited, rStartEmpty, rStartDone >>

\* Write: ab.mu.Lock()
WriteLock ==
    /\ ~panicked
    /\ wPc = "lock"
    /\ abMu = "none"
    /\ abMu' = "producer"
    /\ wPc' = "body"
    /\ UNCHANGED << buffer, size, wData, wPre, wDropped, wCalls, wDone,
                    nextByte, panicked, rPc, rLen, rOut, rWaited,
                    rStartEmpty, rStartDone >>

\* Write: eviction, append, cond.Signal; or the panic of the slice
\* expression, after which the deferred Unlock runs and the process dies.
WriteBody ==
    /\ ~panicked
    /\ wPc = "body"
    /\ wPre' = buffer
    /\ IF WritePanics(wData)
       THEN /\ panicked' = TRUE
            /\ wPc' = "panic"
            /\ abMu' = "none"
            /\ UNCHANGED << buffer, size, wDropped, rPc >>
       ELSE /\ LET drop == IF WriteOverflows(wData) THEN WriteDrop(wData) ELSE 0
                   kept == SliceFrom(buffer, drop)
               IN  /\ buffer' = kept \o wData
                   /\ size' = (size - drop) + Len(wData)
                   /\ wDropped' = drop
            /\ rPc' = SignalWakes(rPc)
            /\ wPc' = "unlock"
            /\ UNCHANGED << panicked, abMu >>
    /\ UNCHANGED << wData, wCalls, wDone, nextByte, rLen, rOut, rWaited,
                    rStartEmpty, rStartDone >>

\* Write: the deferred ab.mu.Unlock() and the return
WriteReturn ==
    /\ ~panicked
    /\ wPc = "unlock"
    /\ abMu' = "none"
    /\ wPc' = "idle"
    /\ wDone' = wDone + 1
    /\ UNCHANGED << buffer, size, wData, wPre, wDropped, wCalls, nextByte,
                    panicked, rPc, rLen, rOut, rWaited, rStartEmpty,
                    rStartDone >>

\* The consumer calls Read(p) with len(p) = k.
ReadCall(k) ==
    /\ ~panicked
    /\ rPc = "idle"
    /\ rLen' = k
    /\ rOut' = << >>
    /\ rWaited' = FALSE
    /\ rStartEmpty' = (size = 0)
    /\ rStartDone' = wDone
    /\ rPc' = "lock"
    /\ UNCHANGED << buffer, size, abMu, wPc, wData, wPre, wDropped, wCalls,
                    wDone, nextByte, panicked >>

\* Read: ab.mu.Lock()
ReadLock ==
    /\ ~panicked
    /\ rPc = "lock"
    /\ abMu = "none"
    /\ abMu' = "consumer"
    /\ rPc' = "check"
    /\ UNCHANGED << buffer, size, wPc, wData, wPre, wDropped, wCalls, wDone,
                    nextByte, panicked, rLen, rOut, rWaited, rStartEmpty,
                    rStartDone >>

\* Read: the loop test; either cond.Wait (park, lock released) or the copy.
ReadCheck ==
    /\ ~panicked
    /\ rPc = "check"
    /\ IF ReadMustWait
       THEN /\ rPc' = "waiting"
            /\ abMu' = MuWhileWaiting
            /\ rWaited' = TRUE
            /\ UNCHANGED << buffer, size, rOut >>
       ELSE /\ LET n == Min(rLen, Len(buffer))
               IN  /\ rOut' = SliceTo(buffer, n)
                   /\ buffer' = SliceFrom(buffer, n)
                   /\ size' = size - n
            /\ rPc' = "unlock"
            /\ UNCHANGED << abMu, rWaited >>
    /\ UNCHANGED << wPc, wData, wPre, wDropped, wCalls, wDone, nextByte,
                    panicked, rLen, rStartEmpty, rStartDone >>

\* Read: cond.Wait returns after a Signal, once it has ab.mu again.
ReadRelock ==
    /\ ~panicked
    /\ rPc = "woken"
    /\ abMu = "none"
    /\ abMu' = "consumer"
    /\ rPc' = "check"
    /\ UNCHANGED << buffer, size, wPc, wData, wPre, wDropped, wCalls, wDone,
                    nextByte, panicked, rLen, rOut, rWaited, rStartEmpty,
                    rStartDone >>

\* Read: the deferred ab.mu.Unlock() and the return of (n, nil)
ReadReturn ==
    /\ ~panicked
    /\ rPc = "unlock"
    /\ abMu' = "none"
    /\ rPc' = "idle"
    /\ UNCHANGED << buffer, size, wPc, wData, wPre, wDropped, wCalls, wDone,
                    nextByte, panicked, rLen, rOut, rWaited, rStartEmpty,
                    rStartDone >>

ProducerStep ==
    \/ \E n \in 0..MaxDataLen : WriteCall(n)
    \/ WriteLock
    \/ WriteBody
    \/ WriteReturn

ConsumerStep ==
    \/ \E k \in 0..MaxReadLen : ReadCall(k)
    \/ ReadLock
    \/ ReadCheck
    \/ ReadRelock
    \/ ReadReturn

BufNext ==
    /\ ProducerStep \/ ConsumerStep
    /\ UNCHANGED << cliVars, pipeVars, evVars, transVars, frameVars, jitVars, notified, lastFrame, stream >>

SpecBuf == Init /\ [][BufNext]_vars

\* The ring buffer with its two streams on record: every byte a Read's
\* copy returns is appended to stream.delivered, every count a Write evicts
\* is added to stream.evicted. The bytes passed to Write are numbered
\* 0, 1, 2, ... in the order they are passed (nextByte).
SpecStream ==
    /\ Init
    /\ [][/\ \/ /\ \/ \E n \in 0..MaxDataLen : WriteCall(n)
                   \/ WriteLock
                   \/ WriteReturn
                   \/ \E k \in 0..MaxReadLen : ReadCall(k)
                   \/ ReadLock
                   \/ ReadRelock
                   \/ ReadReturn
                /\ UNCHANGED stream
             \/ /\ WriteBody
                /\ stream' = [stream EXCEPT !.evicted =
                                 IF wPc' = "unlock" THEN @ + wDropped' ELSE @]
             \/ /\ ReadCheck
                /\ stream' = [stream EXCEPT !.delivered =
                                 IF rPc' = "unlock" THEN @ \o rOut' ELSE @]
          /\ UNCHANGED << cliVars, pipeVars, evVars, transVars, frameVars,
                          jitVars, notified, lastFrame >>]_vars

\* The ring buffer inside a playback session: PlayRemoteAudio's loop is the
\* producer and calls Write only while its context is live (it returns at
\* the top of the loop once ctx.Done is closed), the player is the consumer.
\* Every step of a call under way is taken eventually; nothing obliges the
\* loop to write, the player to read or the session to be cancelled.
SpecBufLive ==
    /\ Init
    /\ [][\/ /\ \/ ~parentDone /\ \E n \in 0..MaxDataLen : WriteCall(n)
                \/ WriteLock
                \/ WriteBody
                \/ WriteReturn
                \/ ConsumerStep
             /\ UNCHANGED << cliVars, pipeVars, evVars, transVars, frameVars,
                             jitVars, notified, lastFrame, stream >>
          \/ /\ ParentCancel
             /\ UNCHANGED << evVars, transVars, frameVars, jitVars, notified,
                             lastFrame, stream >>]_vars
    /\ WF_bufVars(WriteLock) /\ WF_bufVars(WriteBody) /\ WF_bufVars(WriteReturn)
    /\ WF_bufVars(ReadLock) /\ WF_bufVars(ReadCheck) /\ WF_bufVars(ReadRelock)
    /\ WF_bufVars(ReadReturn)

\* ---------------------------------------------------- AudioBuffer claims

\* C1: every Write completes; afterwards the buffer holds exactly the last
\* min(C, S+len(data)) bytes written, in order, and Write returned the number
\* of evicted bytes max(0, S+len(data)-C) - also when len(data) > C.
C1_WriteKeepsNewest ==
    wPc \in {"unlock", "panic"} =>
        /\ ~panicked
        /\ buffer = LastN(wPre \o wData, Min(cap, Len(wPre) + Len(wData)))
        /\ wDropped = Max(0, Len(wPre) + Len(wData) - cap)

\* C2: a Read called on an empty buffer returns only after a Write that
\* completed after the call; a Read never returns on an empty buffer, and
\* with a non-empty destination it delivers at least one byte.
C2_ReadBlocksUntilWrite ==
    /\ rPc = "unlock" =>
            /\ rStartEmpty => wDone > rStartDone
            /\ rWaited => wDone > rStartDone
            /\ rLen > 0 => Len(rOut) >= 1
            /\ Len(rOut) = Min(rLen, Len(rOut) + size)
    /\ rPc = "waiting" => size = 0

C2_Witness ==
    rPc = "unlock" /\ rStartEmpty /\ rWaited /\ rLen > 0

\* C3: a consumer parked in cond.Wait does not own ab.mu, so the producer is
\* never kept out by a sleeping consumer; every Signal issued while the
\* consumer is parked wakes it; and producer and consumer never deadlock.
C3_WriterNeverBlockedByReader ==
    /\ rPc = "waiting" => abMu # "consumer"
    /\ rPc = "waiting" => wPc # "unlock"
    /\ wPc \in {"body", "unlock"} <=> abMu = "producer"
    /\ rPc \in {"check", "unlock"} <=> abMu = "consumer"
    /\ (~panicked /\ ~(rPc = "waiting" /\ wPc = "idle")) => ENABLED BufNext

C3_Witness ==
    rPc = "woken" /\ wPc = "unlock" /\ abMu = "producer"

\* C23: the recorded size is never negative, never above the capacity, and
\* always the number of bytes the buffer holds.
C23_SizeWithinCapacity ==
    /\ 0 <= size
    /\ size <= cap
    /\ size = Len(buffer)

\* A Write that had to drop bytes has returned with the buffer full, and a
\* Read has taken bytes out before it.
C23_Witness ==
    /\ wPc = "idle"
    /\ wDropped > 0
    /\ size = cap
    /\ rOut # << >>

\* C34: with one producer and one consumer, the bytes the Reads returned,
\* taken together, are a subsequence of the bytes passed to Write, in the
\* same order and none twice; each Read(p) returns the min(len(p), S) oldest
\* bytes held and removes them; and as long as no Write has evicted
\* anything, what was read is a prefix of what was written.
C34_ReadStreamIsSubsequence ==
    /\ [](LET written == Bytes(0, nextByte)
              delivered == stream.delivered
              pos(i) == CHOOSE j \in DOMAIN written : written[j] = delivered[i]
          IN  /\ \A i \in DOMAIN delivered :
                    \E j \in DOMAIN written : written[j] = delivered[i]
              /\ \A i, k \in DOMAIN delivered : i < k => pos(i) < pos(k)
              /\ stream.evicted = 0
                   => delivered = SliceTo(written, Len(delivered)))
    /\ [][(rPc = "check" /\ rPc' = "unlock")
            => /\ rOut' = SliceTo(buffer, Min(rLen, size))
               /\ buffer' = SliceFrom(buffer, Min(rLen, size))
               /\ stream'.delivered = stream.delivered \o rOut']_vars

\* Several Reads have returned bytes and a Write has evicted one in
\* between: the read stream has a gap.
C34_Witness ==
    /\ Len(stream.delivered) >= 3
    /\ stream.evicted > 0
    /\ stream.delivered # SliceTo(Bytes(0, nextByte), Len(stream.delivered))
    /\ rPc = "idle"

\* ------------------------------------------------------- Pipeline claims

\* C31: a frame that fails on its own never ends a pipeline loop. In
\* PlayRemoteAudio an empty payload or a failed decode, and in
\* StreamLocalAudio a failed transport write, send the loop back to its top
\* for the next frame; and a loop ends only at its top on cancellation, or
\* in its body on end-of-stream or a transport read error.
C31_FrameErrorsSkipOneFrame ==
    [][/\ (remotePc = "body" /\ remotePc' # "body"
              /\ lastFrame'.remote \in {"emptyPayload", "decodeErr"})
           => remotePc' = "check"
       /\ (localPc = "body" /\ localPc' # "body"
              /\ lastFrame'.local = "writeErr")
           => localPc' = "check"
       /\ (remotePc \in {"check", "body"} /\ remotePc' = "done")
           => \/ remotePc = "check" /\ PipelineCtxDone
              \/ remotePc = "body" /\ lastFrame'.remote \in {"eof", "readErr"}
       /\ (localPc \in {"check", "body"} /\ localPc' = "done")
           => \/ localPc = "check" /\ PipelineCtxDone
              \/ localPc = "body" /\ lastFrame'.local \in {"eof", "readErr"}]_vars

\* Both loops are at work on a frame after one that failed on its own: the
\* remote loop after a failed decode, the local loop after a failed write.
C31_Witness ==
    /\ lastFrame = [local |-> "writeErr", remote |-> "decodeErr"]
    /\ localPc = "body"
    /\ remotePc = "body"

\* C32: a Read parked on an empty buffer returns once the session has been
\* cancelled and the producer loop has stopped writing.
C32_BlockedReadReturns ==
    (rPc = "waiting" /\ parentDone /\ wPc = "idle") ~> (rPc = "idle")

\* ----------------------------------------------- Client liveness claims

\* C33: after Start has returned nil the ready channel is eventually
\* closed, so that a caller blocked on Connected() is released - also when
\* Close or a cancellation comes before any notification was handled.
C33_ReadyEventuallyClosed ==
    (startRet = "nil") ~> connectedGotClosed

\* C35: createSession's helper goroutine, which performs the HTTP call and
\* sends its result on errC, always terminates - also when createSession
\* has returned on the cancellation before the call finished.
C35_HelperTerminates ==
    (httpPc = "inflight") ~> (httpPc = "done")

\* C36: the first Connected notification invokes the local-audio handler
\* only if one was registered; a session started with an event handler
\* alone handles the notification without invoking an unset handler.
C36_UnsetHandlerNotInvoked ==
    [][tlhStarts' > tlhStarts => audioTLH # NoHandler]_vars

\* CLIAgent.Spawn after its set-up: "a.client.Start()" has returned nil
\* and "<-a.client.Connected()" has returned, so Spawn returns nil.
SpawnReturnsNil == startRet = "nil" /\ connectedGotClosed

\* C37: Spawn returns nil only if the session reached Connected: when the
\* first notification that ends the wait is Disconnected, Failed or Closed,
\* Spawn does not report success.
C37_SpawnSucceedsOnlyConnected ==
    [][(~SpawnReturnsNil /\ SpawnReturnsNil') => state' = StateConnected]_vars

\* ---------------------------------------------- Transcript stream claims

\* C38: the fragments a speaker received while not active come out with the
\* first delta that speaker receives once active: that delta returns the
\* label, then the fragments in arrival order, then the delta itself -
\* provided no completion for that speaker arrived since the speaker's
\* last own turn ended.
C38_PendingFragmentsEmitted ==
    LET n == Len(piped)
        IsDelta(i) == "Delta" \in DOMAIN piped[i]
        Who(i) == Speaker(piped[i])
        Last(S) == IF S = {} THEN 0 ELSE CHOOSE k \in S : \A j \in S : j <= k
        \* the end of the speaker's previous turn, 0 if there was none
        TurnEnd(i) == Last({k \in 1..(i - 1) : /\ ~IsDelta(k)
                                                /\ Who(k) = Who(i)
                                                /\ resps[k] # << >>})
        Completed(i) == \E k \in (TurnEnd(i) + 1)..(i - 1) :
                            ~IsDelta(k) /\ Who(k) = Who(i)
        Spoke(i) == \E k \in (TurnEnd(i) + 1)..(i - 1) :
                        IsDelta(k) /\ Who(k) = Who(i) /\ resps[k] # << >>
        Pending(i) == Concat([k \in 1..n |->
                               IF k > TurnEnd(i) /\ k < i /\ IsDelta(k)
                                  /\ Who(k) = Who(i)
                               THEN piped[k].Delta ELSE << >>])
    IN  \A i \in 1..n :
            (IsDelta(i) /\ resps[i] # << >> /\ ~Spoke(i) /\ ~Completed(i))
              => resps[i] = Label(Who(i)) \o Pending(i) \o piped[i].Delta

\* The user received two fragments while the assistant was active; the
\* assistant completed; the user's next delta returned the label, both
\* fragments and the delta.
C38_Witness ==
    /\ Len(piped) = 4
    /\ piped[1] = [Type |-> "conversation.item.input_audio_transcription.delta",
                   Delta |-> << "Hi" >>]
    /\ piped[2] = [Type |-> "conversation.item.input_audio_transcription.delta",
                   Delta |-> << " there" >>]
    /\ piped[3].Type = "response.output_audio_transcript.done"
    /\ piped[4] = [Type |-> "conversation.item.input_audio_transcription.delta",
                   Delta |-> << "Hello" >>]
    /\ resps[4] = Label(1) \o << "Hi", " there", "Hello" >>

\* C39, as stated: every delta passed to PipeEvent appears in exactly one
\* returned string, at its arrival or later: for each speaker, the
\* fragments returned so far followed by the fragments still held are the
\* deltas received, in arrival order.
C39_NoFragmentLost ==
    LET n == Len(piped)
        IsDelta(i) == "Delta" \in DOMAIN piped[i]
        Who(i) == Speaker(piped[i])
        IsFragment(t) == t \notin {Label(0)[1], Label(1)[1], "\n\n"}
        Returned(w) == Concat([j \in 1..n |->
                                IF Who(j) = w THEN resps[j] ELSE << >>])
        Received(w) == Concat([j \in 1..n |->
                                IF IsDelta(j) /\ Who(j) = w
                                THEN piped[j].Delta ELSE << >>])
    IN  \A w \in {0, 1} :
            SelectSeq(Returned(w) \o Trans(w), IsFragment) = Received(w)

\* C39, amended: no delta is returned twice or out of order, and a delta is
\* lost only in one way: it was held for a speaker who was not active and
\* that speaker's completion arrived before the speaker became active. For
\* each speaker, the fragments returned so far followed by the fragments
\* still held are the deltas received less the ones lost in that way.
C39_FragmentLostOnlyToInactiveCompletion ==
    LET n == Len(piped)
        IsDelta(i) == "Delta" \in DOMAIN piped[i]
        Who(i) == Speaker(piped[i])
        IsFragment(t) == t \notin {Label(0)[1], Label(1)[1], "\n\n"}
        Returned(w) == Concat([j \in 1..n |->
                                IF Who(j) = w THEN resps[j] ELSE << >>])
        Lost(k) == /\ resps[k] = << >>
                   /\ \E c \in (k + 1)..n :
                         /\ ~IsDelta(c) /\ Who(c) = Who(k) /\ resps[c] = << >>
                         /\ \A j \in (k + 1)..(c - 1) :
                               Who(j) = Who(k) => resps[j] = << >>
        Kept(w) == Concat([j \in 1..n |->
                            IF IsDelta(j) /\ Who(j) = w /\ ~Lost(j)
                            THEN piped[j].Delta ELSE << >>])
    IN  \A w \in {0, 1} :
            SelectSeq(Returned(w) \o Trans(w), IsFragment) = Kept(w)

\* The user's "Hi" was held while the assistant was active and lost to the
\* user's completion; the user's later "Hello", held as well, came out
\* with " there" once the assistant had completed.
C39_Witness ==
    /\ Len(piped) = 5
    /\ piped[1] = [Type |-> "conversation.item.input_audio_transcription.delta",
                   Delta |-> << "Hi" >>]
    /\ piped[2].Type = ServerEventTypeConversationItemInputAudioTranscriptionCompleted
    /\ piped[3] = [Type |-> "conversation.item.input_audio_transcription.delta",
                   Delta |-> << "Hello" >>]
    /\ piped[4].Type = "response.output_audio_transcript.done"
    /\ piped[5] = [Type |-> "conversation.item.input_audio_transcription.delta",
                   Delta |-> << " there" >>]
    /\ resps[5] = Label(1) \o << "Hello", " there" >>

\* ----------------------------------------------------- Re-encoding claim

\* C40: decoding is stable under re-encoding: for a message with a
\* non-empty identifier that UnmarshalJSON accepts, encoding the decoded
\* event succeeds, and decoding the result succeeds and gives an event
\* with the same identifier, kind and parameter fields.
C40_DecodeStableUnderReencoding ==
    (evPc = "encoded" /\ evEvent.EventId # "")
        => /\ evErr = Nil
           /\ UnmarshalJSON(evOut).err = Nil
           /\ UnmarshalJSON(evOut).event = evEvent

====
